---------------------------- MODULE Spec2Model ----------------------------
(***************************************************************************)
(* Model of the ocean-srrrvey survey engine: the discovery score           *)
(* calculator and survey builder (src/src/lib/ocean-api.ts), the Nostr     *)
(* transport (src/src/lib/nostr.ts) and the survey correlator              *)
(* (SurveyService, src/unnamed/part_002).                                  *)
(*                                                                         *)
(* Numbers.  Discovery scores are kept in hundredths (the calculator       *)
(* rounds to two decimals), so 5000 stands for 50.00.  A match score is a  *)
(* ratio of two integers, [num, den], compared by cross multiplication.    *)
(* Times are integers: created_at in seconds, timestamps in milliseconds. *)
(***************************************************************************)
EXTENDS Integers, Sequences, FiniteSets, TLC

VARIABLES
    \* ---- SurveyService.compareWithOtherSurveys (correlator) ----
    sessions,       \* public keys of the SurveyService instances constructed
    mySurvey,       \* the local OceanSurveyData handed to the correlator
    otherSurveys,   \* the batch of NostrSurveyNote handed to the correlator
    results,        \* per instance: the sequence returned by compareWithOtherSurveys
    called,         \* instances whose compareWithOtherSurveys has returned
    \* ---- OceanAPI.calculateDiscoveryScore ----
    data,           \* its argument {blocksFound, shareWindow, hashRateData, address}
    score,          \* the number it returned
    scored,         \* whether it has returned
    \* ---- SurveyService.performSurvey: createSurveyData, publishSurveyNote ----
    surveyPc,       \* where the performSurvey call stands
    upstream,       \* per upstream resource: "pending" or the response of fetch
    fetched,        \* per upstream resource: what its getter returned
    surveyData,     \* the OceanSurveyData createSurveyData returned
    signedEvent,    \* the event publishSurveyNote signed
    relayState,     \* per relay: "idle", "pending", "fulfilled" or "rejected"
    noteId,         \* what publishSurveyNote returned
    returned,       \* what performSurvey returned
    \* ---- NostrClient.fetchSurveyNotes ----
    fetchPc,        \* "idle" or "subscribed"
    delivered,      \* the events handed to onevent so far, in order
    notes,          \* the notes array of the call
    subClosed,      \* sub.close() has been called
    timerFired,     \* the 5 second timer has fired
    resolvedBy,     \* "none", or the trigger whose resolve settled the promise
    fetchedNotes,   \* the value the promise was resolved with
    \* ---- OceanAPI.getAddressStats ----
    statsPc,        \* where the getAddressStats call stands
    statsData,      \* what its three awaited calls returned so far
    stats,          \* the AddressStats it returned
    \* ---- SurveyService / NostrClient: identity and periodic survey ----
    nostrClient,    \* the NostrClient fields secretKey and publicKey
    profilePc,      \* the setTimeout of the constructor: "scheduled" or "signed"
    isRunning,      \* SurveyService.isRunning
    intervalId,     \* SurveyService.intervalId: 0 stands for null
    armedTimers,    \* the interval timers set and not cleared
    cycles,         \* the performSurvey calls begun, in order
    signedLog,      \* the events finalizeEvent has signed, in order
    lastCall        \* the last method called or callback run

corrVars == <<sessions, mySurvey, otherSurveys, results, called>>

scoreVars == <<data, score, scored>>

surveyVars == <<surveyPc, upstream, fetched, surveyData, signedEvent,
                relayState, noteId, returned>>

fetchVars == <<fetchPc, delivered, notes, subClosed, timerFired, resolvedBy,
               fetchedNotes>>

statsVars == <<statsPc, statsData, stats>>

serviceVars == <<nostrClient, profilePc, isRunning, intervalId, armedTimers,
                 cycles, signedLog, lastCall>>

vars == <<corrVars, scoreVars, surveyVars, fetchVars, statsVars, serviceVars>>

----------------------------------------------------------------------------
(* Bounds of the model                                                     *)

MaxNotes == 4

MaxBlocks == 2

MaxSamples == 3

MaxEvents == 3

\* remote notes in one batch of the address-recovery checks
MaxPeers == 3

\* remote notes in one batch of the analysis-tier checks
MaxTierNotes == 2

\* remote notes in one batch of the cross-address checks
MaxCross == 3

----------------------------------------------------------------------------
(* Small arithmetic helpers                                                *)

Abs(x) == IF x < 0 THEN 0 - x ELSE x

Max2(a, b) == IF a >= b THEN a ELSE b

Min2(a, b) == IF a <= b THEN a ELSE b

\* Math.round of the non-negative ratio n/d (d > 0): halves round up
RoundDiv(n, d) == (2 * n + d) \div (2 * d)

\* Math.floor of the non-negative ratio n/d
FloorDiv(n, d) == n \div d

RECURSIVE Gcd(_, _)
Gcd(a, b) == IF b = 0 THEN a ELSE Gcd(b, a % b)

\* a match score as an exact ratio in lowest terms (n >= 0, d > 0)
Ratio(n, d) == [num |-> n \div Gcd(n, d), den |-> d \div Gcd(n, d)]

\* sign of (x - y) for two ratios with positive denominators
RatioCmp(x, y) == x.num * y.den - y.num * x.den

RatioIsOne(x) == x.num = x.den

\* x > 0.3
RatioAboveThreshold(x) == 10 * x.num > 3 * x.den

----------------------------------------------------------------------------
(* NostrSurveyNote and OceanSurveyData as the correlator reads them        *)

\* extractAddressFromSurvey returns null: no key recovered
NoAddress == ""

\* a JavaScript number: a finite value in hundredths, or NaN
Num(v) == [nan |-> FALSE, v |-> v]

NaN == [nan |-> TRUE, v |-> 0]

\* `otherSurvey.discoveryScore || 0`: NaN and 0 are falsy
ScoreOrZero(note) ==
    IF note.discoveryScore.nan THEN 0 ELSE note.discoveryScore.v

\* the fields of OceanSurveyData the correlator reads
Survey(address, timestamp, discoveryScore) ==
    [address |-> address, timestamp |-> timestamp,
     discoveryScore |-> discoveryScore]

\* mySurvey.discoveryScore: finite in every survey createSurveyData builds
MyScore(my) == my.discoveryScore.v

\* new Date(otherSurvey.created_at * 1000).getTime()
NoteTimeMs(note) == note.created_at * 1000

\* tags.find(tag => tag[0] === name): <<>> stands for undefined
FindTag(tags, name) ==
    IF \E i \in 1..Len(tags) : tags[i][1] = name
    THEN <<tags[CHOOSE i \in 1..Len(tags) :
                  /\ tags[i][1] = name
                  /\ \A j \in 1..(i - 1) : tags[j][1] # name]>>
    ELSE <<>>

\* `tag && tag[1]` taken as a string: "" when the tag or its value is missing
TagValue(tags, name) ==
    LET found == FindTag(tags, name)
    IN  IF found = <<>> THEN "" ELSE found[1][2]

\* variant: the trailing hashtag is taken whatever its length ({1,} for {8,})
extractAddressFromSurveyAnyHashtag(survey) ==
    LET addressTag == TagValue(survey.tags, "address")
    IN
    IF addressTag # ""
    THEN addressTag
    ELSE IF survey.content.hasAddressLabel /\ Len(survey.content.hashtag) >= 1
         THEN survey.content.hashtag
         ELSE NoAddress

\* extractAddressFromSurvey: the address tag verbatim when it has a value;
\* otherwise, when the body carries the address label, the run of letters
\* and digits after the '#' that ends the body if it has 8 characters or
\* more; otherwise null
extractAddressFromSurvey(survey) ==
    LET addressTag == TagValue(survey.tags, "address")
    IN
    IF addressTag # ""
    THEN addressTag
    ELSE IF survey.content.hasAddressLabel /\ Len(survey.content.hashtag) >= 8
         THEN survey.content.hashtag
         ELSE NoAddress

----------------------------------------------------------------------------
(* Analysis texts, kept as the fields the template strings interpolate     *)

\* toFixed(1) of a score in hundredths, as a number of tenths
ToFixed1(h) == IF h >= 0 THEN (h + 5) \div 10 ELSE 0 - ((0 - h + 5) \div 10)

\* variant: the real-time tier includes the fifth minute (<= 5 for < 5)
analyzeSameAddressSurveyUpTo5(my, otherSurvey, timeDiffMs) ==
    LET timeDiffMinutes == FloorDiv(timeDiffMs, 1000 * 60)
        myScore    == MyScore(my)
        otherScore == ScoreOrZero(otherSurvey)
        scoreDiff  == myScore - otherScore
        \* scoreDeviation < 0.1, with max(myScore, otherScore, 1) in hundredths
        stable == 10 * Abs(scoreDiff) < Max2(Max2(myScore, otherScore), 100)
        deltaDirection == IF scoreDiff > 0 THEN "increased"
                          ELSE IF scoreDiff < 0 THEN "decreased" ELSE "unchanged"
        deltaAmount == ToFixed1(Abs(scoreDiff))
    IN  IF timeDiffMinutes <= 5
        THEN [tier |-> "real-time",
              label |-> IF stable THEN "stable" ELSE "changed",
              direction |-> deltaDirection, amount |-> deltaAmount,
              elapsed |-> timeDiffMinutes]
        ELSE IF timeDiffMinutes < 30
        THEN [tier |-> "short-term",
              label |-> IF scoreDiff > 500 THEN "ramping up"
                        ELSE IF scoreDiff < -500 THEN "slowing down" ELSE "steady",
              direction |-> deltaDirection, amount |-> deltaAmount,
              elapsed |-> timeDiffMinutes]
        ELSE IF timeDiffMinutes < 120
        THEN [tier |-> "hour-scale",
              label |-> "none",
              direction |-> deltaDirection, amount |-> deltaAmount,
              elapsed |-> timeDiffMinutes]
        ELSE [tier |-> "historical",
              label |-> "none",
              direction |-> "none", amount |-> ToFixed1(otherScore),
              elapsed |-> FloorDiv(timeDiffMinutes, 60)]

analyzeSameAddressSurvey(my, otherSurvey, timeDiffMs) ==
    LET timeDiffMinutes == FloorDiv(timeDiffMs, 1000 * 60)
        myScore    == MyScore(my)
        otherScore == ScoreOrZero(otherSurvey)
        scoreDiff  == myScore - otherScore
        \* scoreDeviation < 0.1, with max(myScore, otherScore, 1) in hundredths
        stable == 10 * Abs(scoreDiff) < Max2(Max2(myScore, otherScore), 100)
        deltaDirection == IF scoreDiff > 0 THEN "increased"
                          ELSE IF scoreDiff < 0 THEN "decreased" ELSE "unchanged"
        deltaAmount == ToFixed1(Abs(scoreDiff))
    IN  IF timeDiffMinutes < 5
        THEN [tier |-> "real-time",
              label |-> IF stable THEN "stable" ELSE "changed",
              direction |-> deltaDirection, amount |-> deltaAmount,
              elapsed |-> timeDiffMinutes]
        ELSE IF timeDiffMinutes < 30
        THEN [tier |-> "short-term",
              label |-> IF scoreDiff > 500 THEN "ramping up"
                        ELSE IF scoreDiff < -500 THEN "slowing down" ELSE "steady",
              direction |-> deltaDirection, amount |-> deltaAmount,
              elapsed |-> timeDiffMinutes]
        ELSE IF timeDiffMinutes < 120
        THEN [tier |-> "hour-scale",
              label |-> "none",
              direction |-> deltaDirection, amount |-> deltaAmount,
              elapsed |-> timeDiffMinutes]
        ELSE [tier |-> "historical",
              label |-> "none",
              direction |-> "none", amount |-> ToFixed1(otherScore),
              elapsed |-> FloorDiv(timeDiffMinutes, 60)]

analyzeCrossAddressSurvey(my, otherSurvey, otherAddress) ==
    LET myScore    == MyScore(my)
        otherScore == ScoreOrZero(otherSurvey)
        timeDiffMinutes ==
            FloorDiv(Abs(my.timestamp - NoteTimeMs(otherSurvey)), 1000 * 60)
        \* |ratio - 1| * 100 with ratio = myScore > 0 ? otherScore / myScore : 0
        percentDiff == IF myScore > 0
                       THEN RoundDiv(Abs(otherScore - myScore) * 100, myScore)
                       ELSE 100
    IN  [tier |-> IF 2 * otherScore > 3 * myScore THEN "outperforming"
                  ELSE IF 10 * otherScore < 7 * myScore THEN "underperforming"
                  ELSE "similar",
         label |-> otherAddress,
         direction |-> "none", amount |-> percentDiff,
         elapsed |-> timeDiffMinutes]

----------------------------------------------------------------------------
(* Cross-address score                                                     *)

\* variant: the pool-consistency term adds nothing to maxScore
calculateCrossAddressMatchMax70(my, otherSurvey) ==
    LET myScore    == MyScore(my)
        otherScore == ScoreOrZero(otherSurvey)
        maxScore   == 30 + 40
    IN  IF myScore > 0 /\ otherScore > 0
        THEN LET hi == Max2(myScore, otherScore)
                 simNum == hi - Abs(myScore - otherScore)
             IN  Ratio(30 * hi + 40 * simNum + 20 * hi, maxScore * hi)
        ELSE Ratio(30 + 20, maxScore)

\* variant: the pool-consistency term adds 20 to maxScore as it does to score
calculateCrossAddressMatchMax90(my, otherSurvey) ==
    LET myScore    == MyScore(my)
        otherScore == ScoreOrZero(otherSurvey)
        maxScore   == 30 + 40 + 20
    IN  IF myScore > 0 /\ otherScore > 0
        THEN LET hi == Max2(myScore, otherScore)
                 simNum == hi - Abs(myScore - otherScore)
             IN  Ratio(30 * hi + 40 * simNum + 20 * hi, maxScore * hi)
        ELSE Ratio(30 + 20, maxScore)

\* calculateCrossAddressMatch: score / maxScore with maxScore = 30 + 40 + 30
\* and score = 30 + scoreSimilarity * 40 + 20
calculateCrossAddressMatch(my, otherSurvey) ==
    LET myScore    == MyScore(my)
        otherScore == ScoreOrZero(otherSurvey)
        maxScore   == 30 + 40 + 30
    IN  IF myScore > 0 /\ otherScore > 0
        THEN LET hi == Max2(myScore, otherScore)
                 \* scoreSimilarity = (hi - |myScore - otherScore|) / hi
                 simNum == hi - Abs(myScore - otherScore)
             IN  Ratio(30 * hi + 40 * simNum + 20 * hi, maxScore * hi)
        ELSE Ratio(30 + 20, maxScore)

----------------------------------------------------------------------------
(* compareWithOtherSurveys                                                 *)

Entry(survey, matchScore, isRecent, matchType, analysis) ==
    [survey |-> survey, matchScore |-> matchScore, isRecent |-> isRecent,
     matchType |-> matchType, analysis |-> analysis]

\* variant: the own-key test is missing
KeptSurveysAnyKey(publicKey, batch) ==
    SelectSeq(batch, LAMBDA n : extractAddressFromSurvey(n) # NoAddress)

\* variant: the own-key test inverted (!== for ===)
KeptSurveysOwnOnly(publicKey, batch) ==
    SelectSeq(batch, LAMBDA n : n.pubkey = publicKey
                               /\ extractAddressFromSurvey(n) # NoAddress)

\* first loop: notes of the instance's own key and notes without a
\* recoverable address are skipped
KeptSurveys(publicKey, batch) ==
    SelectSeq(batch, LAMBDA n : n.pubkey # publicKey
                               /\ extractAddressFromSurvey(n) # NoAddress)

\* addressGroups.get(address): the kept notes of one key, in arrival order
AddressGroup(kept, address) ==
    SelectSeq(kept, LAMBDA n : extractAddressFromSurvey(n) = address)

\* addressGroups.entries(): a Map iterates its keys in insertion order
RECURSIVE GroupKeys(_)
GroupKeys(kept) ==
    IF kept = <<>> THEN <<>>
    ELSE LET front == GroupKeys(SubSeq(kept, 1, Len(kept) - 1))
             key   == extractAddressFromSurvey(kept[Len(kept)])
         IN  IF \E i \in 1..Len(front) : front[i] = key
             THEN front ELSE Append(front, key)

\* variant: the sort is ascending, the head is the oldest note
LatestSurveyOldest(surveys) ==
    LET best == CHOOSE i \in 1..Len(surveys) :
                  /\ \A j \in 1..Len(surveys) :
                        surveys[j].created_at >= surveys[i].created_at
                  /\ \A j \in 1..(i - 1) :
                        surveys[j].created_at > surveys[i].created_at
    IN  surveys[best]

\* surveys.sort((a, b) => b.created_at - a.created_at)[0]: the sort is
\* stable, so the head is the earliest-arrived note of greatest created_at
LatestSurvey(surveys) ==
    LET best == CHOOSE i \in 1..Len(surveys) :
                  /\ \A j \in 1..Len(surveys) :
                        surveys[j].created_at <= surveys[i].created_at
                  /\ \A j \in 1..(i - 1) :
                        surveys[j].created_at < surveys[i].created_at
    IN  surveys[best]

\* variant: only the latest note of the local address is analysed, as for
\* the other groups
SameAddressResultsLatestOnly(my, kept) ==
    LET sameAddressSurveys == AddressGroup(kept, my.address)
    IN  IF sameAddressSurveys = <<>> THEN <<>>
        ELSE LET otherSurvey == LatestSurvey(sameAddressSurveys)
                 timeDiff == Abs(my.timestamp - NoteTimeMs(otherSurvey))
             IN  <<Entry(otherSurvey, Ratio(1, 1), timeDiff < 30 * 60 * 1000,
                         "same-address",
                         analyzeSameAddressSurvey(my, otherSurvey, timeDiff))>>

\* variant: the one-hour window of the other groups (60 for 30)
SameAddressResultsHourWindow(my, kept) ==
    LET sameAddressSurveys == AddressGroup(kept, my.address)
    IN  [i \in 1..Len(sameAddressSurveys) |->
           LET otherSurvey == sameAddressSurveys[i]
               timeDiff == Abs(my.timestamp - NoteTimeMs(otherSurvey))
           IN  Entry(otherSurvey, Ratio(1, 1), timeDiff < 60 * 60 * 1000,
                     "same-address",
                     analyzeSameAddressSurvey(my, otherSurvey, timeDiff))]

SameAddressResults(my, kept) ==
    LET sameAddressSurveys == AddressGroup(kept, my.address)
    IN  [i \in 1..Len(sameAddressSurveys) |->
           LET otherSurvey == sameAddressSurveys[i]
               timeDiff == Abs(my.timestamp - NoteTimeMs(otherSurvey))
           IN  Entry(otherSurvey, Ratio(1, 1), timeDiff < 30 * 60 * 1000,
                     "same-address",
                     analyzeSameAddressSurvey(my, otherSurvey, timeDiff))]

\* the body of the second loop for one group: zero or one entry
CrossAddressResult(my, kept, address) ==
    IF address = my.address THEN <<>>
    ELSE LET latestSurvey == LatestSurvey(AddressGroup(kept, address))
             timeDiff == Abs(my.timestamp - NoteTimeMs(latestSurvey))
             isRecent == timeDiff < 60 * 60 * 1000
             matchScore == calculateCrossAddressMatch(my, latestSurvey)
         IN  IF ~isRecent THEN <<>>
             ELSE IF RatioAboveThreshold(matchScore)
                  THEN <<Entry(latestSurvey, matchScore, isRecent,
                               "cross-address",
                               analyzeCrossAddressSurvey(my, latestSurvey, address))>>
                  ELSE <<>>

RECURSIVE CrossAddressResults(_, _, _)
CrossAddressResults(my, kept, keys) ==
    IF keys = <<>> THEN <<>>
    ELSE CrossAddressResults(my, kept, SubSeq(keys, 1, Len(keys) - 1))
         \o CrossAddressResult(my, kept, keys[Len(keys)])

\* variant: the type precedence inverted
CompareResultsCrossFirst(a, b) ==
    IF a.matchType # b.matchType
    THEN IF a.matchType = "same-address" THEN 1 ELSE -1
    ELSE RatioCmp(b.matchScore, a.matchScore)

\* the comparator of results.sort: its sign
CompareResults(a, b) ==
    IF a.matchType # b.matchType
    THEN IF a.matchType = "same-address" THEN -1 ELSE 1
    ELSE RatioCmp(b.matchScore, a.matchScore)

\* Array.prototype.sort is stable: an element goes after every element
\* that does not compare greater than it
InsertResult(sorted, x) ==
    LET k == CHOOSE n \in 0..Len(sorted) :
               /\ \A i \in 1..n : CompareResults(sorted[i], x) <= 0
               /\ n < Len(sorted) => CompareResults(sorted[n + 1], x) > 0
    IN  SubSeq(sorted, 1, k) \o <<x>> \o SubSeq(sorted, k + 1, Len(sorted))

RECURSIVE SortResults(_)
SortResults(s) ==
    IF s = <<>> THEN <<>>
    ELSE InsertResult(SortResults(SubSeq(s, 1, Len(s) - 1)), s[Len(s)])

RECURSIVE SumSeq(_)
SumSeq(s) == IF s = <<>> THEN 0 ELSE s[1] + SumSeq(Tail(s))

\* variant: every peer score is counted (the filter s > 0 is missing)
TrendScoresAll(crossAddressMatches) ==
    [i \in 1..Len(crossAddressMatches) |->
        ScoreOrZero(crossAddressMatches[i].survey)]

\* the positive peer scores analyzeNetworkTrend counts
TrendScores(crossAddressMatches) ==
    SelectSeq([i \in 1..Len(crossAddressMatches) |->
                  ScoreOrZero(crossAddressMatches[i].survey)],
              LAMBDA s : s > 0)

\* the entry analyzeNetworkTrend builds once its two guards are passed
NetworkTrendEntry(my, crossAddressMatches) ==
    LET myScore == MyScore(my)
        otherScores == TrendScores(crossAddressMatches)
        total  == SumSeq(otherScores)
        count  == Len(otherScores)
        myRank == Len(SelectSeq(otherScores, LAMBDA s : s < myScore)) + 1
        totalAddresses == count + 1
        percentile == RoundDiv((totalAddresses - myRank) * 100, totalAddresses)
        \* myScore > avg * 1.2, myScore < avg * 0.8 with avg = total / count
        trend == IF 5 * myScore * count > 6 * total THEN "above average"
                 ELSE IF 5 * myScore * count < 4 * total THEN "below average"
                 ELSE "average"
    IN  Entry(crossAddressMatches[1].survey, Ratio(1, 1), TRUE,
              "network-trend",
              [tier |-> trend, label |-> "network",
               direction |-> "none",
               amount |-> RoundDiv(total, count * 10),
               elapsed |-> 0,
               rank |-> myRank, of |-> totalAddresses,
               percentile |-> percentile])

\* variant: the length guard off by one (<= 2 for < 2)
analyzeNetworkTrendAtLeast3(my, crossAddressMatches) ==
    IF Len(crossAddressMatches) <= 2 THEN <<>>
    ELSE IF Len(TrendScores(crossAddressMatches)) = 0 THEN <<>>
    ELSE <<NetworkTrendEntry(my, crossAddressMatches)>>

\* analyzeNetworkTrend: <<>> stands for null
analyzeNetworkTrend(my, crossAddressMatches) ==
    IF Len(crossAddressMatches) < 2 THEN <<>>
    ELSE IF Len(TrendScores(crossAddressMatches)) = 0 THEN <<>>
    ELSE <<NetworkTrendEntry(my, crossAddressMatches)>>

\* variant: a network-trend entry is put first whatever was matched
compareWithOtherSurveysAlwaysTrend(publicKey, my, batch) ==
    LET kept    == KeptSurveys(publicKey, batch)
        pushed  == SameAddressResults(my, kept)
                   \o CrossAddressResults(my, kept, GroupKeys(kept))
        sortedResults == SortResults(pushed)
    IN  <<Entry(<<>>, Ratio(1, 1), TRUE, "network-trend", <<>>)>>
        \o sortedResults

compareWithOtherSurveys(publicKey, my, batch) ==
    LET kept    == KeptSurveys(publicKey, batch)
        pushed  == SameAddressResults(my, kept)
                   \o CrossAddressResults(my, kept, GroupKeys(kept))
        sortedResults == SortResults(pushed)
        crossAddressMatches ==
            SelectSeq(sortedResults, LAMBDA r : r.matchType = "cross-address")
        networkTrend == IF Len(crossAddressMatches) > 0
                        THEN analyzeNetworkTrend(my, crossAddressMatches)
                        ELSE <<>>
    IN  networkTrend \o sortedResults

----------------------------------------------------------------------------
(* calculateDiscoveryScore                                                 *)
(* Block times and the evaluation instant are milliseconds; share window   *)
(* sizes are counted in units of 10^9 shares, so the 1T threshold is 1000. *)

SevenDaysMs == 7 * 24 * 60 * 60 * 1000

\* the evaluation instant `new Date()`
NowMs == 800000000

OneTShares == 1000

RECURSIVE SumSquares(_)
SumSquares(s) == IF s = <<>> THEN 0 ELSE s[1] * s[1] + SumSquares(Tail(s))

HashRates(hashRateData) ==
    [i \in 1..Len(hashRateData) |-> hashRateData[i].hashRate]

\* variant: a block exactly seven days old counts as recent (>= for >)
BaseScoreRecentInclusive(d) ==
    LET addressBlocks ==
            SelectSeq(d.blocksFound, LAMBDA b : b.solverAddress = d.address)
        recentBlocks ==
            SelectSeq(d.blocksFound, LAMBDA b : b.time >= NowMs - SevenDaysMs)
    IN  (IF Len(d.blocksFound) > 0 THEN 10 ELSE 0)
        + (IF Len(d.hashRateData) > 0 THEN 10 ELSE 0)
        + (IF d.shareWindow.size > 0 THEN 5 ELSE 0)
        + Len(addressBlocks) * 15
        + Len(recentBlocks) * 2
        + (IF d.shareWindow.size > OneTShares THEN 5 ELSE 0)

\* the points before the consistency term
BaseScore(d) ==
    LET addressBlocks ==
            SelectSeq(d.blocksFound, LAMBDA b : b.solverAddress = d.address)
        recentBlocks ==
            SelectSeq(d.blocksFound, LAMBDA b : b.time > NowMs - SevenDaysMs)
    IN  (IF Len(d.blocksFound) > 0 THEN 10 ELSE 0)
        + (IF Len(d.hashRateData) > 0 THEN 10 ELSE 0)
        + (IF d.shareWindow.size > 0 THEN 5 ELSE 0)
        + Len(addressBlocks) * 15
        + Len(recentBlocks) * 2
        + (IF d.shareWindow.size > OneTShares THEN 5 ELSE 0)

\* Math.max(0, 10 - coefficient * 10) in hundredths, rounded as the final
\* Math.round(score * 100) rounds it, for samples of positive sum.  With
\* n samples of sum S and D = n * sum of squares - S * S the coefficient
\* sqrt(variance) / avg is sqrt(D) / S; the rounded term is 1000 - k for
\* the least k with (2k + 1) * S >= 2000 * sqrt(D).
ConsistencyHundredths(hashRates) ==
    LET n == Len(hashRates)
        S == SumSeq(hashRates)
        D == n * SumSquares(hashRates) - S * S
    IN  IF D >= S * S THEN 0
        ELSE 1000 - (CHOOSE k \in 0..1000 :
                        /\ ((2 * k + 1) * S) * ((2 * k + 1) * S) >= 4000000 * D
                        /\ k > 0 => ((2 * k - 1) * S) * ((2 * k - 1) * S)
                                        < 4000000 * D)

\* calculateDiscoveryScore for samples >= 0: with two or more samples that
\* are all 0 the coefficient is 0 / 0 = NaN and so is the score
calculateDiscoveryScore(d) ==
    LET hashRates == HashRates(d.hashRateData)
    IN  IF Len(hashRates) > 1
        THEN IF SumSeq(hashRates) = 0
             THEN NaN
             ELSE Num(BaseScore(d) * 100 + ConsistencyHundredths(hashRates))
        ELSE Num(BaseScore(d) * 100)

Block(solverAddress, time) == [solverAddress |-> solverAddress, time |-> time]

Sample(hashRate) == [hashRate |-> hashRate]

SeqsUpTo(universe, n) == UNION {[1..m -> universe] : m \in 0..n}

\* blocks solved by the address or another: an hour, exactly seven days or
\* eight days old
ScoreBlocks ==
    {Block(a, t) : a \in {"A", "B"},
                   t \in {NowMs - 3600000, NowMs - SevenDaysMs,
                          NowMs - SevenDaysMs - 86400000}}

ScoreInputs ==
    [blocksFound : SeqsUpTo(ScoreBlocks, MaxBlocks),
     shareWindow : {[size |-> z] : z \in {0, 1, OneTShares, OneTShares + 1}},
     hashRateData : SeqsUpTo({Sample(h) : h \in {0, 1, 3}}, MaxSamples),
     address : {"A"}]

IdleCorr ==
    /\ sessions = {}
    /\ mySurvey = Survey("", 0, Num(0))
    /\ otherSurveys = <<>>
    /\ results = [k \in {"pk1", "pk2"} |-> <<>>]
    /\ called = {}

IdleScore ==
    /\ data = [blocksFound |-> <<>>, shareWindow |-> [size |-> 0],
               hashRateData |-> <<>>, address |-> ""]
    /\ score = Num(0)
    /\ scored = FALSE

\* the four configured relays
Relays == {"relay.damus.io", "nos.lol", "relay.nostr.band",
           "nostr-pub.wellorder.net"}

Resources == {"blocksfound", "sharewindow", "hashrates"}

\* a fetch that has not settled
Pending == [kind |-> "pending", body |-> <<>>]

NoSurvey ==
    [address |-> "", timestamp |-> 0, blocksFound |-> <<>>,
     shareWindow |-> [date |-> 0, size |-> 0], hashRateData |-> <<>>,
     discoveryScore |-> Num(0), surveyor |-> ""]

NoEvent ==
    [id |-> <<>>, kind |-> 1, pubkey |-> "", created_at |-> 0, tags |-> <<>>,
     content |-> <<>>]

IdleSurvey ==
    /\ surveyPc = "idle"
    /\ upstream = [r \in Resources |-> Pending]
    /\ fetched = [blocksfound |-> <<>>,
                  sharewindow |-> [date |-> 0, size |-> 0],
                  hashrates |-> <<>>]
    /\ surveyData = NoSurvey
    /\ signedEvent = NoEvent
    /\ relayState = [r \in Relays |-> "idle"]
    /\ noteId = <<>>
    /\ returned = NoSurvey

IdleFetch ==
    /\ fetchPc = "idle"
    /\ delivered = <<>>
    /\ notes = <<>>
    /\ subClosed = FALSE
    /\ timerFired = FALSE
    /\ resolvedBy = "none"
    /\ fetchedNotes = <<>>

NoStats ==
    [address |-> "", totalHashRate |-> 0, totalShares |-> 0,
     totalEarnings |-> 0, activeWorkers |-> 0, workers |-> <<>>]

IdleStats ==
    /\ statsPc = "idle"
    /\ statsData = [hashRateData |-> <<>>, blocksFound |-> <<>>,
                    workers |-> <<>>]
    /\ stats = NoStats

\* getPublicKey(secretKey) of nostr-tools: the public key of a secret key
PubOf(sk) == CASE sk = "sk1" -> "pk1" [] sk = "sk2" -> "pk2"

\* new NostrClient(existingSecretKey): the key given, or a generated one
NostrClient(sk) == [secretKey |-> sk, publicKey |-> PubOf(sk)]

IdleService ==
    /\ nostrClient = NostrClient("sk1")
    /\ profilePc = "scheduled"
    /\ isRunning = FALSE
    /\ intervalId = 0
    /\ armedTimers = {}
    /\ cycles = <<>>
    /\ signedLog = <<>>
    /\ lastCall = "constructor"

InitScore ==
    /\ data \in ScoreInputs
    /\ score = Num(0)
    /\ scored = FALSE
    /\ IdleCorr
    /\ IdleSurvey
    /\ IdleFetch
    /\ IdleStats
    /\ IdleService

\* one call of calculateDiscoveryScore
Score ==
    /\ ~scored
    /\ score' = calculateDiscoveryScore(data)
    /\ scored' = TRUE
    /\ UNCHANGED <<data, corrVars, surveyVars, fetchVars, statsVars,
                   serviceVars>>

NextScore == Score

SpecScore == InitScore /\ [][NextScore]_vars

BlocksWhere(Cond(_)) ==
    {i \in 1..Len(data.blocksFound) : Cond(data.blocksFound[i])}

\* C11: with fewer than two hashrate samples the score is exactly
\* 10*[blocks non-empty] + 10*[samples non-empty] + 5*[size > 0]
\* + 15 per block solved by the address + 2 per block (any solver) later
\* than seven days before now + 5*[size > 10^12].
C11_FewSamplesSum ==
    (scored /\ Len(data.hashRateData) < 2)
    => /\ ~score.nan
       /\ score.v =
            100 * ( (IF data.blocksFound # <<>> THEN 10 ELSE 0)
                  + (IF data.hashRateData # <<>> THEN 10 ELSE 0)
                  + (IF data.shareWindow.size > 0 THEN 5 ELSE 0)
                  + 15 * Cardinality(BlocksWhere(
                             LAMBDA b : b.solverAddress = data.address))
                  + 2 * Cardinality(BlocksWhere(
                             LAMBDA b : NowMs - b.time < SevenDaysMs))
                  + (IF data.shareWindow.size >= OneTShares + 1 THEN 5 ELSE 0) )

\* a scored input with one sample, a large window, a block of the address
\* and blocks on both sides of the seven-day line
C11_Witness ==
    /\ scored
    /\ Len(data.hashRateData) = 1
    /\ data.shareWindow.size > OneTShares
    /\ BlocksWhere(LAMBDA b : b.solverAddress = data.address) # {}
    /\ BlocksWhere(LAMBDA b : b.time = NowMs - SevenDaysMs) # {}
    /\ BlocksWhere(LAMBDA b : b.time > NowMs - SevenDaysMs) # {}
    /\ score.v = 4700

\* a <= b on JavaScript numbers: false as soon as one side is NaN
NumLeq(a, b) == ~a.nan /\ ~b.nan /\ a.v <= b.v

WithoutItem(d, item) ==
    CASE item = "blocks"  -> [d EXCEPT !.blocksFound = <<>>]
      [] item = "samples" -> [d EXCEPT !.hashRateData = <<>>]
      [] item = "window"  -> [d EXCEPT !.shareWindow.size = 0]

----------------------------------------------------------------------------
(* Inputs of the correlator                                                *)

\* public keys: pk1 and pk2 are sessions of this program, pk3 is a peer
InstanceKeys == {"pk1", "pk2"}

\* a body: its pieces around the separator fetchSurveyNotes splits on, and
\* what the two regular expressions of extractAddressFromSurvey find in it
Body(segments, hasAddressLabel, hashtag) ==
    [segments |-> segments, hasAddressLabel |-> hasAddressLabel,
     hashtag |-> hashtag]

NoBody == Body(<<"text">>, FALSE, "")

\* the tags of a survey note; a note without address carries no address tag
NoteTags(addressTag) ==
    <<<<"t", "telehash-pirate">>>>
    \o (IF addressTag = "" THEN <<>> ELSE <<<<"address", addressTag>>>>)

Note(pubkey, created_at, addressTag, content, discoveryScore) ==
    [pubkey |-> pubkey, created_at |-> created_at,
     tags |-> NoteTags(addressTag),
     content |-> content, discoveryScore |-> discoveryScore]

\* the local survey is taken at second 10000
MyTimeMs == 10000 * 1000

\* notes of peers about the local address A and two other addresses,
\* ten seconds old, with lower, equal and zero scores; an older and a stale
\* note; a note of the local key; a note without address; a NaN score
CorrNotes ==
    {Note("pk3", 9990, "A", NoBody, Num(sc)) : sc \in {5000, 10000}}
    \cup {Note("pk3", 9990, "B", NoBody, Num(sc)) : sc \in {0, 5000, 10000}}
    \cup {Note("pk3", 9990, "C", NoBody, Num(sc)) : sc \in {0, 10000}}
    \cup {Note("pk3", 9400, "B", NoBody, Num(10000)),
          Note("pk3", 5000, "C", NoBody, Num(10000)),
          Note("pk1", 9990, "A", NoBody, Num(5000)),
          Note("pk3", 9990, "", NoBody, Num(5000)),
          Note("pk3", 9990, "B", NoBody, NaN)}

Batches(universe) == UNION {[1..n -> universe] : n \in 0..MaxNotes}

InitCorr ==
    /\ sessions = {"pk1"}
    /\ mySurvey \in {Survey("A", MyTimeMs, Num(sc)) : sc \in {0, 10000}}
    /\ otherSurveys \in Batches(CorrNotes)
    /\ results = [k \in InstanceKeys |-> <<>>]
    /\ called = {}
    /\ IdleScore
    /\ IdleSurvey
    /\ IdleFetch
    /\ IdleStats
    /\ IdleService

\* one call of compareWithOtherSurveys on instance k
Compare(k) ==
    /\ k \in sessions \ called
    /\ results' = [results EXCEPT
                     ![k] = compareWithOtherSurveys(k, mySurvey, otherSurveys)]
    /\ called' = called \cup {k}
    /\ UNCHANGED <<sessions, mySurvey, otherSurveys, scoreVars, surveyVars, fetchVars,
                   statsVars, serviceVars>>

NextCorr == \E k \in InstanceKeys : Compare(k)

SpecCorr == InitCorr /\ [][NextCorr]_vars

\* notes signed by each of the three keys
KeyNotes ==
    {Note(pk, 9990, a, NoBody, Num(sc)) :
        pk \in {"pk1", "pk2", "pk3"}, a \in {"A", "B"}, sc \in {5000, 10000}}

InitKeys ==
    /\ sessions = InstanceKeys
    /\ mySurvey = Survey("A", MyTimeMs, Num(10000))
    /\ otherSurveys \in Batches(KeyNotes)
    /\ results = [k \in InstanceKeys |-> <<>>]
    /\ called = {}
    /\ IdleScore
    /\ IdleSurvey
    /\ IdleFetch
    /\ IdleStats
    /\ IdleService

SpecKeys == InitKeys /\ [][NextCorr]_vars

\* a long address, and the 8 characters it ends with
AddrLong == "bc1qexampleaddress00abcdefgh"

AddrTail == "abcdefgh"

\* a body as formatSurveyContent of another client might write it: the
\* address label, and the hashtag the body ends with
LabelBody(hashtag) == Body(<<"text">>, TRUE, hashtag)

\* a note whose tags are given in full
TaggedNote(pubkey, created_at, tags, content, discoveryScore) ==
    [pubkey |-> pubkey, created_at |-> created_at, tags |-> tags,
     content |-> content, discoveryScore |-> discoveryScore]

\* notes about AddrLong by tag, 10 seconds, just under 30 minutes, exactly
\* 30 minutes and 10000 seconds old, one of them with a body naming another
\* key and one signed by the local key; notes without address tag (or with
\* an empty one) whose body gives a fragment, a short fragment or no label;
\* notes about address B
PeerNotes ==
    {Note("pk3", 9990, AddrLong, NoBody, Num(5000)),
     Note("pk3", 8201, AddrLong, LabelBody("zzzzzzzz"), Num(10000)),
     Note("pk3", 8200, AddrLong, NoBody, Num(10000)),
     Note("pk3", 0, AddrLong, NoBody, Num(5000)),
     Note("pk1", 9990, AddrLong, NoBody, Num(10000)),
     Note("pk3", 9990, "", LabelBody(AddrTail), NaN),
     Note("pk3", 9990, "", LabelBody("abcdefg"), Num(5000)),
     Note("pk3", 9990, "", Body(<<"text">>, FALSE, AddrTail), Num(5000)),
     TaggedNote("pk3", 9980, <<<<"address", "">>>>, LabelBody(AddrTail),
                Num(0)),
     Note("pk3", 6401, "B", NoBody, Num(10000)),
     Note("pk3", 6400, "B", NoBody, Num(0))}

InitPeers ==
    /\ sessions = {"pk1"}
    /\ mySurvey \in {Survey(a, MyTimeMs, Num(sc)) :
                        a \in {AddrLong, AddrTail}, sc \in {0, 10000}}
    /\ otherSurveys \in UNION {[1..n -> PeerNotes] : n \in 0..MaxPeers}
    /\ results = [k \in InstanceKeys |-> <<>>]
    /\ called = {}
    /\ IdleScore
    /\ IdleSurvey
    /\ IdleFetch
    /\ IdleStats
    /\ IdleService

SpecPeers == InitPeers /\ [][NextCorr]_vars

\* notes of a peer about AddrLong on both sides of the 5 minute, 30 minute
\* and 2 hour lines, with scores on both sides of the local score +- 5
TierNotes ==
    {Note("pk3", 10000 - age, AddrLong, NoBody, Num(sc)) :
        age \in {299, 300, 1799, 1800, 7199, 7200},
        sc \in {9400, 9500, 10000, 10500, 10600}}

InitTiers ==
    /\ sessions = {"pk1"}
    /\ mySurvey \in {Survey(AddrLong, MyTimeMs, Num(sc)) : sc \in {9900, 10000}}
    /\ otherSurveys \in UNION {[1..n -> TierNotes] : n \in 0..MaxTierNotes}
    /\ results = [k \in InstanceKeys |-> <<>>]
    /\ called = {}
    /\ IdleScore
    /\ IdleSurvey
    /\ IdleFetch
    /\ IdleStats
    /\ IdleService

SpecTiers == InitTiers /\ [][NextCorr]_vars

\* notes about three other addresses: current ones, one exactly 60 minutes
\* old, one just under, one exactly 60 minutes ahead, zero and NaN scores;
\* notes of the local key about another address and about the local one
CrossNotes ==
    {Note("pk3", 9990, "B", NoBody, Num(8000)),
     Note("pk3", 13600, "B", NoBody, Num(10000)),
     Note("pk3", 6401, "B", NoBody, Num(12000)),
     Note("pk3", 9990, "C", NoBody, Num(0)),
     Note("pk3", 9990, "C", NoBody, Num(12000)),
     Note("pk3", 6400, "C", NoBody, Num(5000)),
     Note("pk3", 9990, "D", NoBody, Num(10000)),
     Note("pk3", 9990, "D", NoBody, NaN),
     Note("pk1", 9995, "B", NoBody, Num(20000)),
     Note("pk1", 9990, "A", NoBody, Num(5000))}

\* the local scores tried
CrossScores == {0, 8000, 10000, 12000}

InitCross ==
    /\ sessions = {"pk1"}
    /\ mySurvey \in {Survey("A", MyTimeMs, Num(sc)) : sc \in CrossScores}
    /\ otherSurveys \in UNION {[1..n -> CrossNotes] : n \in 0..MaxCross}
    /\ results = [k \in InstanceKeys |-> <<>>]
    /\ called = {}
    /\ IdleScore
    /\ IdleSurvey
    /\ IdleFetch
    /\ IdleStats
    /\ IdleService

SpecCross == InitCross /\ [][NextCorr]_vars

----------------------------------------------------------------------------
(* Properties of the correlator                                            *)

Indices(s) == 1..Len(s)

CrossEntries(r) == SelectSeq(r, LAMBDA e : e.matchType = "cross-address")

TypeRank(e) == IF e.matchType = "network-trend" THEN 0
               ELSE IF e.matchType = "same-address" THEN 1 ELSE 2

EqualNonzeroCross(e) ==
    /\ e.matchType = "cross-address"
    /\ MyScore(mySurvey) = ScoreOrZero(e.survey)
    /\ MyScore(mySurvey) > 0

\* C1 (as stated): a cross-address entry whose note has the local, nonzero
\* discoveryScore has matchScore exactly 1.0.
C1_EqualScoresGiveOne ==
    \A k \in called : \A i \in Indices(results[k]) :
        EqualNonzeroCross(results[k][i]) => RatioIsOne(results[k][i].matchScore)

\* C1 (amended): a cross-address entry whose note has the local, nonzero
\* discoveryScore has matchScore exactly 0.9 = (30+40+20)/(30+40+30).
C1_EqualScoresGiveNineTenths ==
    \A k \in called : \A i \in Indices(results[k]) :
        EqualNonzeroCross(results[k][i])
            => results[k][i].matchScore = Ratio(9, 10)

C1_Witness ==
    \E k \in called : \E i \in Indices(results[k]) :
        EqualNonzeroCross(results[k][i])

\* C2: in every returned sequence a network-trend entry can only be at
\* index 1 (the first element), every same-address entry precedes every
\* cross-address entry, and the cross-address entries are in non-increasing
\* matchScore order.
C2_Ordering ==
    \A k \in called :
        LET r == results[k]
        IN  /\ \A i \in Indices(r) : r[i].matchType = "network-trend" => i = 1
            /\ \A i, j \in Indices(r) : i < j => TypeRank(r[i]) <= TypeRank(r[j])
            /\ \A i, j \in Indices(r) :
                  (i < j /\ r[i].matchType = "cross-address"
                         /\ r[j].matchType = "cross-address")
                  => RatioCmp(r[i].matchScore, r[j].matchScore) >= 0

\* one network-trend, two same-address and two cross-address entries, the
\* cross-address group of lower score having arrived first
C2_Witness ==
    \E k \in called :
        LET r == results[k]
        IN  /\ Len(r) = 5
            /\ r[1].matchType = "network-trend"
            /\ r[2].matchType = "same-address" /\ r[3].matchType = "same-address"
            /\ RatioCmp(r[4].matchScore, r[5].matchScore) > 0
            /\ extractAddressFromSurvey(otherSurveys[1])
                  = extractAddressFromSurvey(r[5].survey)

AllAboutMyAddress ==
    \A i \in Indices(otherSurveys) :
        extractAddressFromSurvey(otherSurveys[i]) = mySurvey.address

OnePerNoteAllSame(r) ==
    /\ Len(r) = Len(otherSurveys)
    /\ \A i \in Indices(r) :
          /\ r[i].survey = otherSurveys[i]
          /\ r[i].matchType = "same-address"
          /\ RatioIsOne(r[i].matchScore)

\* C3 (as stated): when every note is about mySurvey.address the result has
\* exactly one same-address entry of matchScore 1.0 per note and nothing else.
C3_OnePerNote ==
    \A k \in called : AllAboutMyAddress => OnePerNoteAllSame(results[k])

\* C3 (amended): when every note is about mySurvey.address and none of them
\* is signed with the instance's own public key, the result has exactly one
\* same-address entry of matchScore 1.0 per note and nothing else.
C3_OnePerForeignNote ==
    \A k \in called :
        (AllAboutMyAddress
           /\ \A i \in Indices(otherSurveys) : otherSurveys[i].pubkey # k)
        => OnePerNoteAllSame(results[k])

C3_Witness ==
    \E k \in called :
        /\ AllAboutMyAddress
        /\ \A i \in Indices(otherSurveys) : otherSurveys[i].pubkey # k
        /\ Len(otherSurveys) >= 3
        /\ \E i, j \in Indices(otherSurveys) : otherSurveys[i] # otherSurveys[j]

HasTrend(r) == \E i \in Indices(r) : r[i].matchType = "network-trend"

\* C4 (as stated): a network-trend entry is present exactly when there are
\* two or more cross-address entries; it is then unique and first.
C4_TrendIffTwoCross ==
    \A k \in called :
        LET r == results[k]
        IN  /\ HasTrend(r) <=> Len(CrossEntries(r)) >= 2
            /\ \A i \in Indices(r) : r[i].matchType = "network-trend" => i = 1

\* C4 (amended): a network-trend entry is present exactly when there are
\* two or more cross-address entries of which at least one has a
\* discoveryScore greater than 0; it is then unique and first.
C4_TrendIffTwoCrossOnePositive ==
    \A k \in called :
        LET r == results[k]
            c == CrossEntries(r)
        IN  /\ HasTrend(r) <=>
                  (Len(c) >= 2 /\ \E i \in Indices(c) : ScoreOrZero(c[i].survey) > 0)
            /\ \A i \in Indices(r) : r[i].matchType = "network-trend" => i = 1

\* exactly two cross-address entries, one of score 0, and the trend entry
C4_Witness ==
    \E k \in called :
        LET r == results[k]
            c == CrossEntries(r)
        IN  /\ HasTrend(r)
            /\ Len(c) = 2
            /\ \E i \in Indices(c) : ScoreOrZero(c[i].survey) = 0

WithoutKey(batch, k) == SelectSeq(batch, LAMBDA n : n.pubkey # k)

SignedBy(k) == \E i \in Indices(otherSurveys) : otherSurveys[i].pubkey = k

\* C10 (as stated): two instances holding different public keys return
\* identical sequences for the same mySurvey and the same notes.
C10_SameForAllKeys ==
    called = InstanceKeys => results["pk1"] = results["pk2"]

\* C10 (amended): the result depends on the instance only through the
\* skipping of the notes signed with its own key: what instance k returns is
\* what an instance with another key o returns for the same batch with the
\* notes signed by k removed, provided no note is signed by o; so the two
\* results are identical when neither key signed a note.
C10_SameUpToOwnNotes ==
    \A k \in called : \A o \in InstanceKeys \ {k} :
        ~SignedBy(o)
        => results[k] = compareWithOtherSurveys(o, mySurvey,
                                                WithoutKey(otherSurveys, k))

\* both instances were called on a batch holding a note of the first key
\* and none of the second, and the first instance returned something
C10_Witness ==
    /\ called = InstanceKeys
    /\ SignedBy("pk1") /\ ~SignedBy("pk2")
    /\ results["pk1"] # <<>>
    /\ results["pk1"] # results["pk2"]

\* C14: every returned entry has 0 <= matchScore <= 1 and every
\* cross-address entry has matchScore > 0.3, whatever the local and remote
\* scores (0, NaN and missing included).
C14_MatchScoreRange ==
    \A k \in called : \A i \in Indices(results[k]) :
        LET e == results[k][i]
        IN  /\ e.matchScore.den > 0
            /\ 0 <= e.matchScore.num
            /\ e.matchScore.num <= e.matchScore.den
            /\ e.matchType = "cross-address"
               => 10 * e.matchScore.num > 3 * e.matchScore.den

\* a result with a same-address entry, a cross-address entry of a note
\* with a NaN score and a cross-address entry of a note with the local score
C14_Witness ==
    \E k \in called : \E i, j, l \in Indices(results[k]) :
        /\ MyScore(mySurvey) = 10000
        /\ results[k][i].matchType = "same-address"
        /\ results[k][j].matchType = "cross-address"
        /\ results[k][j].survey.discoveryScore.nan
        /\ results[k][l].matchType = "cross-address"
        /\ results[k][l].survey.discoveryScore = Num(10000)

\* C18: called with an empty sequence of remote notes,
\* compareWithOtherSurveys returns an empty sequence.
C18_EmptyBatchEmptyResult ==
    \A k \in called : otherSurveys = <<>> => results[k] = <<>>

C18_Witness ==
    /\ called # {}
    /\ otherSurveys = <<>>
    /\ mySurvey.discoveryScore = Num(10000)

\* the grouping key as C19 words it
ClaimedKey(note) ==
    LET at == {i \in Indices(note.tags) : note.tags[i][1] = "address"}
        first == CHOOSE i \in at : \A j \in at : i <= j
    IN  IF at # {} /\ note.tags[first][2] # ""
        THEN note.tags[first][2]
        ELSE IF note.content.hasAddressLabel /\ Len(note.content.hashtag) >= 8
             THEN note.content.hashtag
             ELSE NoAddress

\* C19: the key of a note is its address tag value when it has one (the
\* body is ignored), else the hashtag of 8 characters or more that ends a
\* body carrying the address label, else none.  Every same-address or
\* cross-address entry is about a note with a key, and is same-address
\* exactly when the key equals mySurvey.address; notes without key yield
\* no entry and the result is the one of the batch without them.
C19_GroupingKey ==
    \A k \in called :
        LET r == results[k]
        IN  /\ \A i \in Indices(r) :
                  r[i].matchType # "network-trend"
                  => /\ \E n \in Indices(otherSurveys) :
                            otherSurveys[n] = r[i].survey
                     /\ ClaimedKey(r[i].survey) # NoAddress
                     /\ r[i].matchType = "same-address"
                        <=> ClaimedKey(r[i].survey) = mySurvey.address
            /\ r = compareWithOtherSurveys(k, mySurvey,
                       SelectSeq(otherSurveys,
                                 LAMBDA n : ClaimedKey(n) # NoAddress))

\* the local address is the 8-character tail: a note keyed by its body is
\* in the same-address group, a tagged note whose body names another key is
\* a cross-address peer under its tag, and a note without key is in the batch
C19_Witness ==
    \E k \in called :
        /\ mySurvey.address = AddrTail
        /\ \E i \in Indices(results[k]) :
              /\ results[k][i].matchType = "same-address"
              /\ TagValue(results[k][i].survey.tags, "address") = ""
        /\ \E i \in Indices(results[k]) :
              /\ results[k][i].matchType = "cross-address"
              /\ results[k][i].survey.content.hashtag = "zzzzzzzz"
        /\ \E n \in Indices(otherSurveys) :
              /\ ClaimedKey(otherSurveys[n]) = NoAddress
              /\ otherSurveys[n].content.hasAddressLabel

\* the same-address entries of a result about one note
SameAddressEntriesOf(r, note) ==
    SelectSeq(r, LAMBDA e : e.matchType = "same-address" /\ e.survey = note)

\* the positions of a batch that hold one note
Occurrences(batch, note) == {n \in Indices(batch) : batch[n] = note}

\* |mySurvey.timestamp - publish time| < 30 minutes
Within30Minutes(note) ==
    Abs(mySurvey.timestamp - note.created_at * 1000) < 30 * 60 * 1000

\* C20 (as stated): every remote note whose recovered address is
\* mySurvey.address yields a same-address entry whatever its age, and the
\* entry's isRecent is true iff the note is less than 30 minutes from the
\* local survey.
C20_SameAddressAnyAge ==
    \A k \in called : \A n \in Indices(otherSurveys) :
        LET note == otherSurveys[n]
            mine == SameAddressEntriesOf(results[k], note)
        IN  extractAddressFromSurvey(note) = mySurvey.address
            => /\ Len(mine) = Cardinality(Occurrences(otherSurveys, note))
               /\ \A i \in Indices(mine) :
                     mine[i].isRecent <=> Within30Minutes(note)

\* C20 (amended): every remote note not signed with the instance's own key
\* whose recovered address is mySurvey.address yields a same-address entry
\* whatever its age, with isRecent true iff the note is less than 30
\* minutes from the local survey; a note signed with the instance's own key
\* yields no entry.
C20_PeerSameAddressAnyAge ==
    \A k \in called : \A n \in Indices(otherSurveys) :
        LET note == otherSurveys[n]
            mine == SameAddressEntriesOf(results[k], note)
        IN  extractAddressFromSurvey(note) = mySurvey.address
            => IF note.pubkey = k
               THEN mine = <<>>
               ELSE /\ Len(mine) = Cardinality(Occurrences(otherSurveys, note))
                    /\ \A i \in Indices(mine) :
                          mine[i].isRecent <=> Within30Minutes(note)

\* same-address entries for notes 10000 seconds, exactly 30 minutes and
\* just under 30 minutes old
C20_Witness ==
    \E k \in called : \E i, j, l \in Indices(results[k]) :
        LET r == results[k]
        IN  /\ r[i].matchType = "same-address" /\ r[i].survey.created_at = 0
               /\ ~r[i].isRecent
            /\ r[j].matchType = "same-address" /\ r[j].survey.created_at = 8200
               /\ ~r[j].isRecent
            /\ r[l].matchType = "same-address" /\ r[l].survey.created_at = 8201
               /\ r[l].isRecent

\* |mySurvey.timestamp - publish time| in milliseconds
TimeDiffOf(note) == Abs(mySurvey.timestamp - note.created_at * 1000)

\* the tier C21 gives to a time difference
ClaimedTier(timeDiff) ==
    IF timeDiff < 5 * 60 * 1000 THEN "real-time"
    ELSE IF timeDiff < 30 * 60 * 1000 THEN "short-term"
    ELSE IF timeDiff < 2 * 60 * 60 * 1000 THEN "hour-scale"
    ELSE "historical"

\* C21: the tier of a same-address entry depends on timeDiff alone:
\* real-time below 5 minutes, short-term from 5 to below 30 minutes,
\* hour-scale from 30 minutes to below 2 hours, historical from 2 hours;
\* it is real-time or short-term exactly when isRecent is true; in the
\* short-term tier the label is ramping up iff myScore - otherScore > 5,
\* slowing down iff it is < -5, steady otherwise.
C21_TierByTimeDiff ==
    \A k \in called : \A i \in Indices(results[k]) :
        LET e == results[k][i]
            scoreDiff == MyScore(mySurvey) - ScoreOrZero(e.survey)
        IN  e.matchType = "same-address"
            => /\ e.analysis.tier = ClaimedTier(TimeDiffOf(e.survey))
               /\ e.analysis.tier \in {"real-time", "short-term"} <=> e.isRecent
               /\ e.analysis.tier = "short-term"
                  => e.analysis.label =
                        (IF scoreDiff > 500 THEN "ramping up"
                         ELSE IF scoreDiff < -500 THEN "slowing down"
                         ELSE "steady")

\* a note exactly 5 minutes away whose score is exactly 5 below the local
\* one: short-term and steady
C21_Witness ==
    \E k \in called : \E i \in Indices(results[k]) :
        LET e == results[k][i]
        IN  /\ e.matchType = "same-address"
            /\ TimeDiffOf(e.survey) = 5 * 60 * 1000
            /\ MyScore(mySurvey) - ScoreOrZero(e.survey) = 500
            /\ e.analysis.tier = "short-term"
            /\ e.analysis.label = "steady"

\* the positions of the batch that instance k groups under an address
GroupOf(k, address) ==
    {n \in Indices(otherSurveys) :
        /\ otherSurveys[n].pubkey # k
        /\ extractAddressFromSurvey(otherSurveys[n]) = address}

\* the cross-address entries of a result about an address
CrossEntriesAbout(r, address) ==
    SelectSeq(r, LAMBDA e : /\ e.matchType = "cross-address"
                            /\ extractAddressFromSurvey(e.survey) = address)

\* the greatest publish time in a non-empty group
LatestTime(group) ==
    CHOOSE t \in {otherSurveys[n].created_at : n \in group} :
        \A n \in group : otherSurveys[n].created_at <= t

\* C22: for each recovered address other than mySurvey.address there is at
\* most one cross-address entry, about a note of the group with the
\* greatest publish time; there is one iff that time is less than 60
\* minutes from mySurvey.timestamp and the score exceeds 0.3, whatever the
\* older notes of the group; every cross-address entry has isRecent true.
C22_OneLatestPerGroup ==
    \A k \in called :
        /\ \A i \in Indices(results[k]) :
              results[k][i].matchType = "cross-address"
              => /\ results[k][i].isRecent
                 /\ extractAddressFromSurvey(results[k][i].survey)
                      \notin {mySurvey.address, NoAddress}
        /\ \A n \in Indices(otherSurveys) :
              LET address == extractAddressFromSurvey(otherSurveys[n])
                  group == GroupOf(k, address)
                  about == CrossEntriesAbout(results[k], address)
              IN  (address \notin {mySurvey.address, NoAddress} /\ group # {})
                  => /\ Len(about) <= 1
                     /\ about # <<>>
                        <=> /\ Abs(mySurvey.timestamp - LatestTime(group) * 1000)
                                 < 60 * 60 * 1000
                            /\ \E m \in group :
                                 /\ otherSurveys[m].created_at = LatestTime(group)
                                 /\ RatioAboveThreshold(calculateCrossAddressMatch(
                                        mySurvey, otherSurveys[m]))
                     /\ about # <<>>
                        => /\ about[1].survey.created_at = LatestTime(group)
                           /\ \E m \in group : otherSurveys[m] = about[1].survey

\* a group whose latest note is 60 minutes ahead and whose older note is
\* current gives no entry, next to a group that gives one
C22_Witness ==
    \E k \in called :
        /\ \E n, m \in GroupOf(k, "B") :
              /\ otherSurveys[n].created_at = 13600
              /\ otherSurveys[m].created_at = 9990
        /\ CrossEntriesAbout(results[k], "B") = <<>>
        /\ Len(CrossEntriesAbout(results[k], "D")) = 1

\* the scores of the cross-address entries of a result, in order
PeerScores(r) ==
    [i \in Indices(CrossEntries(r)) |-> ScoreOrZero(CrossEntries(r)[i].survey)]

\* the standing of a local score against the mean of a sequence of scores:
\* above 1.2 times the mean, below 0.8 times the mean, or average
Standing(myScore, scores) ==
    IF 5 * myScore * Len(scores) > 6 * SumSeq(scores) THEN "above average"
    ELSE IF 5 * myScore * Len(scores) < 4 * SumSeq(scores) THEN "below average"
    ELSE "average"

\* the trend entry states the mean of these scores, to one decimal, and the
\* standing of the local score against it
TrendStates(r, scores) ==
    /\ scores # <<>>
    /\ r[1].analysis.amount = RoundDiv(SumSeq(scores), Len(scores) * 10)
    /\ r[1].analysis.tier = Standing(MyScore(mySurvey), scores)

\* C23 (as stated): the peer mean of the network-trend entry is the mean of
\* the discoveryScore of all cross-address matched peers, and the standing
\* is above average iff myScore > 1.2 * mean, below average iff
\* myScore < 0.8 * mean, average otherwise.
C23_MeanOfAllPeers ==
    \A k \in called :
        HasTrend(results[k]) => TrendStates(results[k], PeerScores(results[k]))

\* C23 (amended): the peer mean is the mean of the discoveryScore of the
\* cross-address matched peers whose score is greater than 0 (peers with a
\* zero, missing or unparseable score are left out), and the standing is
\* above average iff myScore > 1.2 * mean, below average iff
\* myScore < 0.8 * mean, average otherwise.
C23_MeanOfPositivePeers ==
    \A k \in called :
        HasTrend(results[k])
        => TrendStates(results[k],
                       SelectSeq(PeerScores(results[k]), LAMBDA x : x > 0))

\* peers of 8000 and 12000 and a peer without score: the local 12000 is
\* exactly 1.2 times the mean of the two and is reported average
C23_Witness ==
    \E k \in called :
        /\ HasTrend(results[k])
        /\ Len(PeerScores(results[k])) = 3
        /\ \E i \in Indices(PeerScores(results[k])) : PeerScores(results[k])[i] = 0
        /\ MyScore(mySurvey) = 12000
        /\ results[k][1].analysis.amount = 1000
        /\ results[k][1].analysis.tier = "average"

\* the peer scores the trend entry of a result counts
CountedPeers(r) == SelectSeq(PeerScores(r), LAMBDA x : x > 0)

\* the percentile the same matched peers give to another local score
PercentileFor(r, myScore) ==
    NetworkTrendEntry(Survey(mySurvey.address, mySurvey.timestamp, Num(myScore)),
                      CrossEntries(r)).analysis.percentile

\* C24: with the matched peers fixed, a local score strictly greater than
\* every peer's score is reported as rank 1 of N, raising the local score
\* never lowers the reported percentile, N is the number of counted peers
\* plus one, 1 <= rank <= N and 0 <= percentile <= 100.
C24_StandingMonotone ==
    \A k \in called :
        HasTrend(results[k])
        => LET t     == results[k][1].analysis
               peers == CountedPeers(results[k])
           IN  /\ t.of = Len(peers) + 1
               /\ 1 <= t.rank /\ t.rank <= t.of
               /\ 0 <= t.percentile /\ t.percentile <= 100
               /\ (\A i \in Indices(peers) : peers[i] < MyScore(mySurvey))
                  => t.rank = 1
               /\ \A s \in CrossScores :
                      s > MyScore(mySurvey)
                      => PercentileFor(results[k], s) >= t.percentile

\* what holds of the code: N, the range of the rank and of the percentile
C24_RankRange ==
    \A k \in called :
        HasTrend(results[k])
        => LET t == results[k][1].analysis
           IN  /\ t.of = Len(CountedPeers(results[k])) + 1
               /\ 1 <= t.rank /\ t.rank <= t.of
               /\ 0 <= t.percentile /\ t.percentile <= 100

\* the local score above both peers is ranked last, at percentile 0
C24_TopScoreRankedLast ==
    \E k \in called :
        /\ HasTrend(results[k])
        /\ CountedPeers(results[k]) # <<>>
        /\ \A i \in Indices(CountedPeers(results[k])) :
               CountedPeers(results[k])[i] < MyScore(mySurvey)
        /\ results[k][1].analysis.rank = results[k][1].analysis.of
        /\ results[k][1].analysis.percentile = 0

\* the batch without the notes signed with a key
WithoutNotesOf(publicKey, batch) ==
    SelectSeq(batch, LAMBDA n : n.pubkey # publicKey)

\* C27: no entry returned by compareWithOtherSurveys refers to a note whose
\* pubkey is the local session's public key; such notes are skipped before
\* grouping, so the result (same-address entries, cross-address entries,
\* the network-trend mean, rank and placeholder note) is the one the batch
\* without them gives.
C27_OwnNotesCountNowhere ==
    \A k \in called :
        /\ \A i \in Indices(results[k]) : results[k][i].survey.pubkey # k
        /\ results[k] = compareWithOtherSurveys(
                            k, mySurvey, WithoutNotesOf(k, otherSurveys))

\* the batch holds a note of the session's own key that is the latest about
\* its address, and two peers' notes from which a trend is computed
C27_Witness ==
    \E k \in called :
        /\ HasTrend(results[k])
        /\ \E n, m \in Indices(otherSurveys) :
              /\ otherSurveys[n].pubkey = k
              /\ otherSurveys[m].pubkey # k
              /\ extractAddressFromSurvey(otherSurveys[n])
                    = extractAddressFromSurvey(otherSurveys[m])
              /\ otherSurveys[n].created_at > otherSurveys[m].created_at
              /\ \E i \in Indices(results[k]) :
                    results[k][i].survey = otherSurveys[m]

----------------------------------------------------------------------------
(* performSurvey: createSurveyData, then publishSurveyNote                 *)

\* what fetch gave: a response with ok, a response without, or a rejection
Response(kind, body) == [kind |-> kind, body |-> body]

Failed(response) == response.kind \in {"http-error", "network-error"}

\* variant: the `!response.ok` test is missing, the error body is returned
getBlocksFoundUnchecked(response) ==
    IF response.kind = "network-error" THEN <<>> ELSE response.body

\* getBlocksFound: the JSON body, [] on a rejection or a non-OK status
getBlocksFound(response) ==
    IF response.kind = "ok" THEN response.body ELSE <<>>

\* getShareWindow: the JSON body, {date: now, size: 0} on failure
getShareWindow(response) ==
    IF response.kind = "ok" THEN response.body
    ELSE [date |-> NowMs, size |-> 0]

\* a CSV line `timestamp,,rate`: its first and third columns; the rate is
\* what parseFloat makes of the third column, in GH/s
CsvRow(timestamp, rate) == [timestamp |-> timestamp, rate |-> rate]

\* variant: the rate is kept as read, without the division by 1000
ParseCsvRowRaw(row) ==
    [timestamp |-> IF row.timestamp = "" THEN "now" ELSE row.timestamp,
     worker |-> "",
     hashRate |-> (IF row.rate.nan THEN 0 ELSE row.rate.v)]

\* one line of parseHashRateCSV: `parseFloat(hashRateStr) || 0`, divided by
\* 1000 (the rows used carry whole TH/s)
ParseCsvRow(row) ==
    [timestamp |-> IF row.timestamp = "" THEN "now" ELSE row.timestamp,
     worker |-> "",
     hashRate |-> (IF row.rate.nan THEN 0 ELSE row.rate.v) \div 1000]

\* variant: the filter keeps the rows of rate 0 (>= for >)
parseHashRateCSVKeepsZero(csvText) ==
    SelectSeq([i \in 1..Len(csvText) |-> ParseCsvRow(csvText[i])],
              LAMBDA item : item.hashRate >= 0)

parseHashRateCSV(csvText) ==
    SelectSeq([i \in 1..Len(csvText) |-> ParseCsvRow(csvText[i])],
              LAMBDA item : item.hashRate > 0)

\* getHashRateData: the parsed CSV, [] on a rejection or a non-OK status
getHashRateData(response) ==
    IF response.kind = "ok" THEN parseHashRateCSV(response.body) ELSE <<>>

Getter(resource, response) ==
    CASE resource = "blocksfound" -> getBlocksFound(response)
      [] resource = "sharewindow" -> getShareWindow(response)
      [] resource = "hashrates"   -> getHashRateData(response)

\* what the pool may answer to each request
BlocksBodies == {<<>>, <<Block("A", NowMs - 3600000)>>}

ErrorBlocksBody == <<Block("B", NowMs - 3600000)>>

ShareWindowBodies == {[date |-> NowMs - 60000, size |-> 2 * OneTShares]}

ErrorShareWindowBody == [date |-> NowMs - 60000, size |-> 1]

\* CSV texts: empty; rows of positive rate; rows of zero, negative and
\* unparseable or missing rate among valid ones; no valid row; a positive
\* row whose first column is empty
CsvBodies ==
    {<<>>,
     <<CsvRow("t1", Num(1000)), CsvRow("t2", Num(3000))>>,
     <<CsvRow("t1", Num(0)), CsvRow("t2", Num(2000)), CsvRow("t3", NaN)>>,
     <<CsvRow("t1", Num(3000)), CsvRow("t2", Num(-2000)), CsvRow("t3", NaN),
       CsvRow("t4", Num(1000))>>,
     <<CsvRow("t1", Num(0)), CsvRow("t2", NaN)>>,
     <<CsvRow("", Num(2000)), CsvRow("t2", Num(1000))>>}

ErrorCsvBody == <<CsvRow("t1", Num(1000))>>

Responses(resource) ==
    CASE resource = "blocksfound" ->
            {Response("ok", b) : b \in BlocksBodies}
            \cup {Response("http-error", ErrorBlocksBody),
                  Response("network-error", <<>>)}
      [] resource = "sharewindow" ->
            {Response("ok", b) : b \in ShareWindowBodies}
            \cup {Response("http-error", ErrorShareWindowBody),
                  Response("network-error", <<>>)}
      [] resource = "hashrates" ->
            {Response("ok", b) : b \in CsvBodies}
            \cup {Response("http-error", ErrorCsvBody),
                  Response("network-error", <<>>)}

\* variant: the score is written without its decimals (toFixed(0))
NumberToStringNoDecimals(x) ==
    IF x.nan THEN [text |-> "NaN"]
    ELSE [decimal |-> [negative |-> x.v < 0,
                       whole |-> (Abs(x.v) + 50) \div 100,
                       fraction |-> 0]]

\* `number.toString()` as a tag value: the decimal text of a score, its
\* sign, whole part and hundredths, or the text NaN
NumberToString(x) ==
    IF x.nan THEN [text |-> "NaN"]
    ELSE [decimal |-> [negative |-> x.v < 0,
                       whole |-> Abs(x.v) \div 100,
                       fraction |-> Abs(x.v) % 100]]

\* formatSurveyContent: real line breaks only, the address label line, and
\* a last line `#telehash-pirate #bitcoin #mining <suffix>` in which the
\* suffix follows a blank, not a #
formatSurveyContent(oceanData) == Body(<<"text">>, TRUE, "")

\* finalizeEvent: the id is a digest of the event's fields
EventId(event) == <<event.pubkey, event.created_at, event.tags>>

InitSurvey ==
    /\ sessions = {"pk1"}
    /\ mySurvey = Survey("", 0, Num(0))
    /\ otherSurveys = <<>>
    /\ results = [k \in InstanceKeys |-> <<>>]
    /\ called = {}
    /\ IdleScore
    /\ IdleSurvey
    /\ IdleFetch
    /\ IdleStats
    /\ IdleService

\* performSurvey(address) calls createSurveyData, which issues the three
\* fetches at once
PerformSurvey ==
    /\ surveyPc = "idle"
    /\ surveyPc' = "fetching"
    /\ UNCHANGED <<upstream, fetched, surveyData, signedEvent, relayState,
                   noteId, returned, corrVars, scoreVars, fetchVars,
                   statsVars, serviceVars>>

\* one of the three getters settles, in any order
FetchSettles(resource, response) ==
    /\ surveyPc = "fetching"
    /\ upstream[resource] = Pending
    /\ upstream' = [upstream EXCEPT ![resource] = response]
    /\ fetched' = [fetched EXCEPT ![resource] = Getter(resource, response)]
    /\ UNCHANGED <<surveyPc, surveyData, signedEvent, relayState, noteId,
                   returned, corrVars, scoreVars, fetchVars, statsVars,
                   serviceVars>>

\* Promise.all has resolved: createSurveyData scores and returns the survey
BuildSurvey ==
    /\ surveyPc = "fetching"
    /\ \A r \in Resources : upstream[r] # Pending
    /\ \E publicKey \in sessions :
         surveyData' =
            [address |-> "A",
             timestamp |-> NowMs,
             blocksFound |-> fetched["blocksfound"],
             shareWindow |-> fetched["sharewindow"],
             hashRateData |-> fetched["hashrates"],
             discoveryScore |->
                calculateDiscoveryScore(
                    [blocksFound |-> fetched["blocksfound"],
                     shareWindow |-> fetched["sharewindow"],
                     hashRateData |-> fetched["hashrates"],
                     address |-> "A"]),
             surveyor |-> publicKey]
    /\ surveyPc' = "built"
    /\ UNCHANGED <<upstream, fetched, signedEvent, relayState, noteId,
                   returned, corrVars, scoreVars, fetchVars, statsVars,
                   serviceVars>>

\* publishSurveyNote up to its await: the event is signed and handed to
\* pool.publish once per relay
SignAndPublish ==
    /\ surveyPc = "built"
    /\ LET unsignedEvent ==
              [kind |-> 1,
               pubkey |-> surveyData.surveyor,
               created_at |-> NowMs \div 1000,
               tags |-> <<<<"t", "telehash-pirate">>,
                          <<"address", surveyData.address>>,
                          <<"timestamp", surveyData.timestamp>>,
                          <<"discovery-score",
                            NumberToString(surveyData.discoveryScore)>>>>,
               content |-> formatSurveyContent(surveyData)]
       IN  signedEvent' = [id |-> EventId(unsignedEvent)] @@ unsignedEvent
    /\ relayState' = [r \in Relays |-> "pending"]
    /\ surveyPc' = "awaiting"
    /\ UNCHANGED <<upstream, fetched, surveyData, noteId, returned,
                   corrVars, scoreVars, fetchVars, statsVars, serviceVars>>

\* variant: the exception of publishSurveyNote leaves performSurvey, which
\* returns no survey
PublishThrowsUncaught ==
    /\ surveyPc = "built"
    /\ surveyPc' = "done"
    /\ returned' = NoSurvey
    /\ UNCHANGED <<upstream, fetched, surveyData, signedEvent, relayState,
                   noteId, corrVars, scoreVars, fetchVars, statsVars,
                   serviceVars>>

\* publishSurveyNote throws before its await; performSurvey catches, logs
\* and returns the survey
PublishThrows ==
    /\ surveyPc = "built"
    /\ surveyPc' = "done"
    /\ returned' = surveyData
    /\ UNCHANGED <<upstream, fetched, surveyData, signedEvent, relayState,
                   noteId, corrVars, scoreVars, fetchVars, statsVars,
                   serviceVars>>

\* the publish to one relay settles; nothing obliges a relay to answer
RelaySettles(relay, outcome) ==
    /\ surveyPc = "awaiting"
    /\ relayState[relay] = "pending"
    /\ relayState' = [relayState EXCEPT ![relay] = outcome]
    /\ UNCHANGED <<surveyPc, upstream, fetched, surveyData, signedEvent,
                   noteId, returned, corrVars, scoreVars, fetchVars,
                   statsVars, serviceVars>>

AllSettled == \A r \in Relays : relayState[r] \in {"fulfilled", "rejected"}

SomeSettled == \E r \in Relays : relayState[r] \in {"fulfilled", "rejected"}

\* variant: the await ends with the first publish that settles
PublishReturnsFirstSettled ==
    /\ surveyPc = "awaiting"
    /\ SomeSettled
    /\ noteId' = signedEvent.id
    /\ returned' = surveyData
    /\ surveyPc' = "done"
    /\ UNCHANGED <<upstream, fetched, surveyData, signedEvent, relayState,
                   corrVars, scoreVars, fetchVars, statsVars, serviceVars>>

\* `await Promise.allSettled(...)` ends once every publish has settled;
\* publishSurveyNote returns signedEvent.id and performSurvey the survey
PublishReturns ==
    /\ surveyPc = "awaiting"
    /\ AllSettled
    /\ noteId' = signedEvent.id
    /\ returned' = surveyData
    /\ surveyPc' = "done"
    /\ UNCHANGED <<upstream, fetched, surveyData, signedEvent, relayState,
                   corrVars, scoreVars, fetchVars, statsVars, serviceVars>>

NextSurvey ==
    \/ PerformSurvey
    \/ \E resource \in Resources : \E response \in Responses(resource) :
          FetchSettles(resource, response)
    \/ BuildSurvey
    \/ SignAndPublish
    \/ PublishThrows
    \/ \E relay \in Relays : \E outcome \in {"fulfilled", "rejected"} :
          RelaySettles(relay, outcome)
    \/ PublishReturns

SpecSurvey == InitSurvey /\ [][NextSurvey]_vars

----------------------------------------------------------------------------
(* Properties of performSurvey                                             *)

SurveyBuilt == surveyPc \in {"built", "awaiting", "done"}

BuiltFromFetched(survey) ==
    /\ survey # NoSurvey
    /\ survey.address = "A"
    /\ survey.blocksFound = fetched["blocksfound"]
    /\ survey.shareWindow = fetched["sharewindow"]
    /\ survey.hashRateData = fetched["hashrates"]
    /\ survey.discoveryScore =
          calculateDiscoveryScore(
              [blocksFound |-> fetched["blocksfound"],
               shareWindow |-> fetched["sharewindow"],
               hashRateData |-> fetched["hashrates"],
               address |-> "A"])
    /\ survey.surveyor \in sessions

\* C26: performSurvey returns the survey built from the upstream data
\* whether the publication succeeds on all relays, on some, on none, or
\* publishSurveyNote throws: the failure does not reach the caller and the
\* survey returned is the same in all these cases.
C26_ReturnsSurveyWhateverPublication ==
    surveyPc = "done"
    => /\ returned = surveyData
       /\ BuiltFromFetched(returned)
       /\ noteId = <<>> \/ AllSettled

\* performSurvey has returned the survey although every relay rejected
C26_Witness ==
    /\ surveyPc = "done"
    /\ \A r \in Relays : relayState[r] = "rejected"
    /\ BuiltFromFetched(returned)

\* performSurvey has returned the survey although publishSurveyNote threw
C26_ThrownAndReturned ==
    /\ surveyPc = "done"
    /\ noteId = <<>>
    /\ BuiltFromFetched(returned)

\* C8: whatever subset of the three fetches fails (rejection or non-OK
\* status), createSurveyData completes; a failed blocks fetch gives
\* blocksFound = [], a failed share-window fetch shareWindow.size = 0, a
\* failed hashrate fetch hashRateData = [], and a fetch that succeeded gives
\* the value of its own response.
C8_FailuresDegradeSeparately ==
    /\ (surveyPc = "fetching" /\ \A r \in Resources : upstream[r] # Pending)
         => ENABLED BuildSurvey
    /\ SurveyBuilt =>
         /\ Failed(upstream["blocksfound"]) => surveyData.blocksFound = <<>>
         /\ Failed(upstream["sharewindow"]) => surveyData.shareWindow.size = 0
         /\ Failed(upstream["hashrates"]) => surveyData.hashRateData = <<>>
         /\ upstream["blocksfound"].kind = "ok"
              => surveyData.blocksFound = upstream["blocksfound"].body
         /\ upstream["sharewindow"].kind = "ok"
              => surveyData.shareWindow = upstream["sharewindow"].body
         /\ upstream["hashrates"].kind = "ok"
              => surveyData.hashRateData
                   = parseHashRateCSV(upstream["hashrates"].body)

\* a survey built after the blocks fetch got a non-OK status and the
\* hashrate fetch was rejected, the share window having arrived
C8_Witness ==
    /\ SurveyBuilt
    /\ upstream["blocksfound"].kind = "http-error"
    /\ upstream["sharewindow"].kind = "ok"
    /\ upstream["hashrates"].kind = "network-error"
    /\ surveyData.shareWindow.size > 0

\* the rows of a CSV text whose rate is a positive number
PositiveRows(csvText) ==
    SelectSeq(csvText, LAMBDA row : ~row.rate.nan /\ row.rate.v > 0)

HashRatesSettled == upstream["hashrates"] # Pending

\* C15: every sample getHashRateData returns has hashRate > 0; rows of
\* zero, negative, missing or unparseable rate are dropped and the other
\* rows are kept in their order; a response without valid row, a non-OK
\* status and a transport error give the empty sequence.
C15_OnlyPositiveSamples ==
    HashRatesSettled =>
        LET response == upstream["hashrates"]
            samples  == fetched.hashrates
        IN  /\ \A i \in Indices(samples) : samples[i].hashRate > 0
            /\ Failed(response) => samples = <<>>
            /\ response.kind = "ok" =>
                  LET rows == PositiveRows(response.body)
                  IN  /\ Len(samples) = Len(rows)
                      /\ \A i \in Indices(rows) :
                            rows[i].timestamp # ""
                            => samples[i].timestamp = rows[i].timestamp

\* a response whose first and last rows are valid and whose middle rows
\* are a negative and an unparseable rate
C15_Witness ==
    /\ HashRatesSettled
    /\ upstream["hashrates"].kind = "ok"
    /\ Len(upstream["hashrates"].body) = 4
    /\ Len(fetched.hashrates) = 2
    /\ fetched.hashrates[2].timestamp = "t4"

AllRowsPositive(csvText) ==
    csvText # <<>> /\ PositiveRows(csvText) = csvText

----------------------------------------------------------------------------
(* fetchSurveyNotes                                                        *)

\* a tag value that is not the text of a number
NotANumber == [text |-> "abc"]

\* parseFloat of a tag value
ParseFloat(value) ==
    IF "decimal" \in DOMAIN value
    THEN Num((IF value.decimal.negative THEN -1 ELSE 1)
             * (value.decimal.whole * 100 + value.decimal.fraction))
    ELSE NaN

\* event.content.split(sep)[1] || '{}': the second piece of the body, or
\* '{}' when there is none or it is empty
JsonText(event) ==
    IF Len(event.content.segments) >= 2 /\ event.content.segments[2] # ""
    THEN event.content.segments[2]
    ELSE "{}"

\* JSON.parse accepts the text: "text" stands for a piece that is not JSON
Parses(event) == JsonText(event) # "text"

\* the note onevent pushes for an event whose body parses
ParsedNote(event) ==
    LET discoveryScoreTag == FindTag(event.tags, "discovery-score")
    IN  [pubkey |-> event.pubkey, created_at |-> event.created_at,
         tags |-> event.tags, content |-> event.content,
         oceanData |-> JsonText(event),
         discoveryScore |-> IF discoveryScoreTag = <<>> THEN Num(0)
                            ELSE ParseFloat(discoveryScoreTag[1][2])]

\* notes.sort((a, b) => b.created_at - a.created_at), stable
InsertNote(sorted, x) ==
    LET k == CHOOSE n \in 0..Len(sorted) :
               /\ \A i \in 1..n : sorted[i].created_at >= x.created_at
               /\ n < Len(sorted) => sorted[n + 1].created_at < x.created_at
    IN  SubSeq(sorted, 1, k) \o <<x>> \o SubSeq(sorted, k + 1, Len(sorted))

RECURSIVE SortNotes(_)
SortNotes(s) ==
    IF s = <<>> THEN <<>>
    ELSE InsertNote(SortNotes(SubSeq(s, 1, Len(s) - 1)), s[Len(s)])

Event(pubkey, created_at, tags, content) ==
    [pubkey |-> pubkey, created_at |-> created_at, tags |-> tags,
     content |-> content]

\* what the relays may deliver: a note as publishSurveyNote writes it; a
\* note without score tag whose body has JSON after the separator; a note
\* whose body has something else there; a note with an unreadable score
\* and nothing after the separator
FetchEvents ==
    {Event("pk3", 9990,
           NoteTags("A") \o <<<<"discovery-score", NumberToString(Num(10000))>>>>,
           Body(<<"text">>, TRUE, "")),
     Event("pk3", 9400, NoteTags("B"), Body(<<"text", "{json}">>, FALSE, "")),
     Event("pk3", 9700, NoteTags("A"), Body(<<"text", "text">>, FALSE, "")),
     Event("pk2", 9800,
           NoteTags("B") \o <<<<"discovery-score", NotANumber>>>>,
           Body(<<"text", "">>, FALSE, ""))}

InitFetch ==
    /\ sessions = {"pk1"}
    /\ mySurvey = Survey("", 0, Num(0))
    /\ otherSurveys = <<>>
    /\ results = [k \in InstanceKeys |-> <<>>]
    /\ called = {}
    /\ IdleScore
    /\ IdleSurvey
    /\ IdleFetch
    /\ IdleStats
    /\ IdleService

\* fetchSurveyNotes(limit): subscribe and arm the 5 second timer
FetchSurveyNotes ==
    /\ fetchPc = "idle"
    /\ fetchPc' = "subscribed"
    /\ UNCHANGED <<delivered, notes, subClosed, timerFired, resolvedBy,
                   fetchedNotes, corrVars, scoreVars, surveyVars, statsVars,
                   serviceVars>>

\* variant: a body that does not parse is kept with an empty oceanData
OnEventKeepsUnparsed(event) ==
    /\ fetchPc = "subscribed"
    /\ ~subClosed
    /\ Len(delivered) < MaxEvents
    /\ delivered' = Append(delivered, event)
    /\ notes' = IF Parses(event) THEN Append(notes, ParsedNote(event))
                ELSE Append(notes, [ParsedNote(event) EXCEPT !.oceanData = "{}"])
    /\ UNCHANGED <<fetchPc, subClosed, timerFired, resolvedBy, fetchedNotes,
                   corrVars, scoreVars, surveyVars, statsVars, serviceVars>>

\* variant: the closed subscription still hands events to onevent
OnEventAfterClose(event) ==
    /\ fetchPc = "subscribed"
    /\ Len(delivered) < MaxEvents
    /\ delivered' = Append(delivered, event)
    /\ notes' = IF Parses(event) THEN Append(notes, ParsedNote(event))
                ELSE notes
    /\ UNCHANGED <<fetchPc, subClosed, timerFired, resolvedBy, fetchedNotes,
                   corrVars, scoreVars, surveyVars, statsVars, serviceVars>>

\* onevent: the note is pushed, or the parse error is caught and logged
OnEvent(event) ==
    /\ fetchPc = "subscribed"
    /\ ~subClosed
    /\ Len(delivered) < MaxEvents
    /\ delivered' = Append(delivered, event)
    /\ notes' = IF Parses(event) THEN Append(notes, ParsedNote(event))
                ELSE notes
    /\ UNCHANGED <<fetchPc, subClosed, timerFired, resolvedBy, fetchedNotes,
                   corrVars, scoreVars, surveyVars, statsVars, serviceVars>>

\* resolve(notes.sort(...)): notes is sorted in place; only the first
\* resolve settles the promise
Resolve(trigger) ==
    /\ notes' = SortNotes(notes)
    /\ IF resolvedBy = "none"
       THEN resolvedBy' = trigger /\ fetchedNotes' = SortNotes(notes)
       ELSE UNCHANGED <<resolvedBy, fetchedNotes>>

\* oneose: close the subscription and resolve
OnEose ==
    /\ fetchPc = "subscribed"
    /\ ~subClosed
    /\ subClosed' = TRUE
    /\ Resolve("eose")
    /\ UNCHANGED <<fetchPc, delivered, timerFired, corrVars, scoreVars,
                   surveyVars, statsVars, serviceVars>>

\* variant: the timeout gives up with an empty list
TimeoutDiscards ==
    /\ fetchPc = "subscribed"
    /\ ~timerFired
    /\ timerFired' = TRUE
    /\ subClosed' = TRUE
    /\ notes' = SortNotes(notes)
    /\ IF resolvedBy = "none"
       THEN resolvedBy' = "timeout" /\ fetchedNotes' = <<>>
       ELSE UNCHANGED <<resolvedBy, fetchedNotes>>
    /\ UNCHANGED <<fetchPc, delivered, corrVars, scoreVars, surveyVars,
                   statsVars, serviceVars>>

\* the timer, never cancelled: close the subscription and resolve
Timeout ==
    /\ fetchPc = "subscribed"
    /\ ~timerFired
    /\ timerFired' = TRUE
    /\ subClosed' = TRUE
    /\ Resolve("timeout")
    /\ UNCHANGED <<fetchPc, delivered, corrVars, scoreVars, surveyVars,
                   statsVars, serviceVars>>

NextFetch ==
    \/ FetchSurveyNotes
    \/ \E event \in FetchEvents : OnEvent(event)
    \/ OnEose
    \/ Timeout

SpecFetch == InitFetch /\ [][NextFetch]_vars

\* a timer that is armed fires
FairSpecFetch == SpecFetch /\ WF_vars(Timeout)

----------------------------------------------------------------------------
(* Properties of fetchSurveyNotes                                          *)

ParsedDelivered ==
    LET ok == SelectSeq(delivered, Parses)
    IN  [i \in 1..Len(ok) |-> ParsedNote(ok[i])]

Holds(s, x) == \E i \in 1..Len(s) : s[i] = x

\* C7: fetchSurveyNotes always eventually resolves, at the first of the
\* end-of-stored-events signal and the timer, and the sequence it resolves
\* with holds every note received and parsed until then, whether or not an
\* end-of-stored-events signal arrives.
C7_ResolvesWithPartialResults ==
    /\ (fetchPc = "subscribed") ~> (resolvedBy # "none")
    /\ [](resolvedBy # "none" =>
            \A i \in 1..Len(delivered) :
                Parses(delivered[i])
                    => Holds(fetchedNotes, ParsedNote(delivered[i])))
    /\ []((subClosed => resolvedBy # "none")
          /\ (resolvedBy = "timeout" => timerFired))

\* the timer resolved the call, no end-of-stored-events signal having
\* come, with the two notes received until then
C7_Witness ==
    /\ resolvedBy = "timeout"
    /\ Len(delivered) >= 2
    /\ Len(fetchedNotes) >= 2

\* C9: an event whose body does not parse is left out of the returned
\* sequence, the call goes on, and the returned sequence is made of exactly
\* the events of the subscription whose body parses.
C9_UnparseableDropped ==
    /\ Len(notes) = Len(ParsedDelivered)
    /\ resolvedBy # "none" => fetchedNotes = SortNotes(ParsedDelivered)

\* an unparseable event was received between two that parse, and the call
\* has resolved
C9_Witness ==
    /\ resolvedBy # "none"
    /\ Len(delivered) = 3
    /\ Parses(delivered[1]) /\ ~Parses(delivered[2]) /\ Parses(delivered[3])
    /\ Len(fetchedNotes) = 2


----------------------------------------------------------------------------
(* getAddressStats                                                         *)
(* Its three awaited calls absorb their own failures, so the catch block   *)
(* of getAddressStats is not reached.                                      *)

\* the address the statistics are asked for
StatsAddress == AddrLong

\* address.slice(-8)
Last8(address) == IF address = AddrLong THEN AddrTail ELSE address

\* new Date(text).getTime() for the timestamps used: NaN for a text that is
\* not a date
DateOf(text) ==
    CASE text = "now"   -> Num(NowMs)
      [] text = "t-10m" -> Num(NowMs - 10 * 60 * 1000)
      [] text = "t-1h"  -> Num(NowMs - 60 * 60 * 1000)
      [] text = "t-2h"  -> Num(NowMs - 2 * 60 * 60 * 1000)
      [] OTHER          -> NaN

\* a block with the shares that went into it
StatsBlock(solverAddress, acceptedShares) ==
    [solverAddress |-> solverAddress, time |-> NowMs - 3600000,
     acceptedShares |-> acceptedShares]

StatsBlocksResponses ==
    {Response("ok", b) :
        b \in SeqsUpTo({StatsBlock(StatsAddress, 5), StatsBlock(StatsAddress, 7),
                        StatsBlock("B", 11)}, MaxBlocks)}
    \cup {Response("http-error", <<StatsBlock(StatsAddress, 5)>>),
          Response("network-error", <<>>)}

\* CSV texts whose last valid row is ten minutes, two hours or exactly one
\* hour old, has an empty first column or one that is not a date
StatsCsvResponses ==
    {Response("ok", b) :
        b \in {<<>>,
               <<CsvRow("t-2h", Num(1000)), CsvRow("t-10m", Num(3000))>>,
               <<CsvRow("t-10m", Num(3000)), CsvRow("t-2h", Num(2000))>>,
               <<CsvRow("t-1h", Num(2000))>>,
               <<CsvRow("", Num(2000))>>,
               <<CsvRow("yesterday", Num(1000))>>,
               <<CsvRow("t-10m", Num(0))>>}}
    \cup {Response("http-error", <<CsvRow("t-10m", Num(1000))>>),
          Response("network-error", <<>>)}

\* a <tr> of the workers page: the text of its worker-name and hashrate
\* cells, <<>> for a cell the regular expression does not find
HtmlRow(name, hashrate) == [name |-> name, hashrate |-> hashrate]

WorkersResponses ==
    {Response("ok", b) :
        b \in {<<>>,
               <<HtmlRow(<<"rig1">>, <<Num(50)>>)>>,
               <<HtmlRow(<<"rig1">>, <<>>)>>,
               <<HtmlRow(<<"rig1">>, <<NaN>>), HtmlRow(<<>>, <<Num(50)>>)>>}}
    \cup {Response("http-error", <<HtmlRow(<<"rig1">>, <<Num(50)>>)>>),
          Response("network-error", <<>>)}

WorkerStats(workerName, hashRate60s, hashRate3hr, lastSeen, shares) ==
    [workerName |-> workerName, hashRate60s |-> hashRate60s,
     hashRate3hr |-> hashRate3hr, hashRate24hr |-> hashRate3hr,
     lastSeen |-> lastSeen, shares |-> shares, earnings |-> 0]

\* getRealWorkerData: the rows with both cells, at most 21; [] on a non-OK
\* status or a rejection
getRealWorkerData(response) ==
    IF response.kind # "ok" THEN <<>>
    ELSE LET rows == SelectSeq(response.body,
                        LAMBDA row : row.name # <<>> /\ row.hashrate # <<>>)
             workers ==
                [i \in 1..Len(rows) |->
                    LET rate == IF rows[i].hashrate[1].nan THEN 0
                                ELSE rows[i].hashrate[1].v
                    IN  WorkerStats(rows[i].name[1], rate, Ratio(rate, 1),
                                    "now", 0)]
         IN  SubSeq(workers, 1, Min2(21, Len(workers)))

\* blocks.reduce((sum, block) => sum + block.acceptedShares, 0)
AcceptedShares(blocks) ==
    SumSeq([i \in 1..Len(blocks) |-> blocks[i].acceptedShares])

\* variant: the shares of every block are summed, whoever solved it
AddressStatsAllBlocks(address, hashRateData, blocksFound, realWorkers) ==
    LET addressBlocks == blocksFound
        n == Len(hashRateData)
        currentHashRate == IF n > 0 THEN hashRateData[n].hashRate ELSE 0
        avgHashRate == IF n > 0
                       THEN Ratio(SumSeq(HashRates(hashRateData)), n)
                       ELSE Ratio(0, 1)
        workers ==
            IF Len(realWorkers) # 0 THEN realWorkers
            ELSE IF n > 0
            THEN <<WorkerStats(Last8(address), currentHashRate, avgHashRate,
                               IF hashRateData[n].timestamp = "" THEN "now"
                               ELSE hashRateData[n].timestamp,
                               AcceptedShares(addressBlocks))>>
            ELSE <<>>
        active == SelectSeq(workers,
                     LAMBDA w : ~DateOf(w.lastSeen).nan
                                /\ DateOf(w.lastSeen).v > NowMs - 60 * 60 * 1000)
    IN  [address |-> address,
         totalHashRate |-> currentHashRate,
         totalShares |-> AcceptedShares(addressBlocks),
         totalEarnings |-> 0,
         activeWorkers |-> Len(active),
         workers |-> workers]

\* the AddressStats getAddressStats builds from what its calls returned
AddressStats(address, hashRateData, blocksFound, realWorkers) ==
    LET addressBlocks ==
            SelectSeq(blocksFound, LAMBDA b : b.solverAddress = address)
        n == Len(hashRateData)
        currentHashRate == IF n > 0 THEN hashRateData[n].hashRate ELSE 0
        avgHashRate == IF n > 0
                       THEN Ratio(SumSeq(HashRates(hashRateData)), n)
                       ELSE Ratio(0, 1)
        workers ==
            IF Len(realWorkers) # 0 THEN realWorkers
            ELSE IF n > 0
            THEN <<WorkerStats(Last8(address), currentHashRate, avgHashRate,
                               IF hashRateData[n].timestamp = "" THEN "now"
                               ELSE hashRateData[n].timestamp,
                               AcceptedShares(addressBlocks))>>
            ELSE <<>>
        active == SelectSeq(workers,
                     LAMBDA w : ~DateOf(w.lastSeen).nan
                                /\ DateOf(w.lastSeen).v > NowMs - 60 * 60 * 1000)
    IN  [address |-> address,
         totalHashRate |-> currentHashRate,
         totalShares |-> AcceptedShares(addressBlocks),
         totalEarnings |-> 0,
         activeWorkers |-> Len(active),
         workers |-> workers]

InitStats ==
    /\ IdleCorr
    /\ IdleScore
    /\ IdleSurvey
    /\ IdleFetch
    /\ IdleStats
    /\ IdleService

\* getAddressStats(address) is called and awaits getHashRateData
GetAddressStats ==
    /\ statsPc = "idle"
    /\ statsPc' = "hashrates"
    /\ UNCHANGED <<statsData, stats, corrVars, scoreVars, surveyVars,
                   fetchVars, serviceVars>>

\* getHashRateData has returned; getBlocksFound is awaited
StatsHashRates(response) ==
    /\ statsPc = "hashrates"
    /\ statsData' = [statsData EXCEPT
                       !.hashRateData = getHashRateData(response)]
    /\ statsPc' = "blocks"
    /\ UNCHANGED <<stats, corrVars, scoreVars, surveyVars, fetchVars,
                   serviceVars>>

\* getBlocksFound has returned; getRealWorkerData is awaited
StatsBlocksFound(response) ==
    /\ statsPc = "blocks"
    /\ statsData' = [statsData EXCEPT
                       !.blocksFound = getBlocksFound(response)]
    /\ statsPc' = "workers"
    /\ UNCHANGED <<stats, corrVars, scoreVars, surveyVars, fetchVars,
                   serviceVars>>

\* getRealWorkerData has returned; the statistics are built and returned
StatsWorkers(response) ==
    /\ statsPc = "workers"
    /\ statsData' = [statsData EXCEPT
                       !.workers = getRealWorkerData(response)]
    /\ stats' = AddressStats(StatsAddress, statsData.hashRateData,
                             statsData.blocksFound,
                             getRealWorkerData(response))
    /\ statsPc' = "done"
    /\ UNCHANGED <<corrVars, scoreVars, surveyVars, fetchVars, serviceVars>>

NextStats ==
    \/ GetAddressStats
    \/ \E response \in StatsCsvResponses : StatsHashRates(response)
    \/ \E response \in StatsBlocksResponses : StatsBlocksFound(response)
    \/ \E response \in WorkersResponses : StatsWorkers(response)

SpecStats == InitStats /\ [][NextStats]_vars

----------------------------------------------------------------------------
(* Properties of getAddressStats                                           *)

\* the sum of acceptedShares over the blocks solved by an address
RECURSIVE SharesOf(_, _)
SharesOf(blocks, address) ==
    IF blocks = <<>> THEN 0
    ELSE (IF Head(blocks).solverAddress = address
          THEN Head(blocks).acceptedShares ELSE 0)
         + SharesOf(Tail(blocks), address)

\* totalHashRate is the last sample's hashRate (0 without sample) and
\* totalShares the shares of the blocks of the address
StatsTotals ==
    LET samples == statsData.hashRateData
    IN  /\ stats.totalHashRate =
             (IF samples = <<>> THEN 0 ELSE samples[Len(samples)].hashRate)
        /\ stats.totalShares = SharesOf(statsData.blocksFound, StatsAddress)

LastSampleWithinHour ==
    LET samples == statsData.hashRateData
        seen == DateOf(samples[Len(samples)].timestamp)
    IN  ~seen.nan /\ NowMs - seen.v < 60 * 60 * 1000

----------------------------------------------------------------------------
(* A note from publishSurveyNote to the correlator of another session      *)

\* the surveys handed to publishSurveyNote: a non-empty address, a finite
\* score
RoundTripAddresses == {"A", "B", AddrLong}

RoundTripScores == {0, 5235, 12750}

\* a note of a third client that the relays hold
ForeignEvent ==
    Event("pk3", 9400, NoteTags("B"), Body(<<"text", "{json}">>, FALSE, ""))

\* session pk1 is about to publish a survey; session pk2 has a survey of
\* its own and fetches
InitRoundTrip ==
    /\ sessions = {"pk1", "pk2"}
    /\ \E a \in {"A", AddrLong} :
          mySurvey = Survey(a, NowMs + 10000, Num(10000))
    /\ otherSurveys = <<>>
    /\ results = [k \in InstanceKeys |-> <<>>]
    /\ called = {}
    /\ surveyPc = "built"
    /\ upstream = [r \in Resources |-> Pending]
    /\ fetched = [blocksfound |-> <<>>,
                  sharewindow |-> [date |-> 0, size |-> 0],
                  hashrates |-> <<>>]
    /\ \E a \in RoundTripAddresses : \E sc \in RoundTripScores :
          surveyData = [NoSurvey EXCEPT !.address = a,
                                        !.timestamp = NowMs,
                                        !.discoveryScore = Num(sc),
                                        !.surveyor = "pk1"]
    /\ signedEvent = NoEvent
    /\ relayState = [r \in Relays |-> "idle"]
    /\ noteId = <<>>
    /\ returned = NoSurvey
    /\ IdleScore
    /\ IdleFetch
    /\ IdleStats
    /\ IdleService

\* a relay that accepted the note hands it to the subscription of pk2
RelayDelivers ==
    /\ \E r \in Relays : relayState[r] = "fulfilled"
    /\ ~Holds(delivered, signedEvent)
    /\ OnEvent([pubkey |-> signedEvent.pubkey,
                created_at |-> signedEvent.created_at,
                tags |-> signedEvent.tags,
                content |-> signedEvent.content])

\* session pk2 hands what it fetched to compareWithOtherSurveys
PeerCompares ==
    /\ resolvedBy # "none"
    /\ "pk2" \notin called
    /\ otherSurveys' = fetchedNotes
    /\ results' = [results EXCEPT
                     !["pk2"] = compareWithOtherSurveys("pk2", mySurvey,
                                                        fetchedNotes)]
    /\ called' = called \cup {"pk2"}
    /\ UNCHANGED <<sessions, mySurvey, scoreVars, surveyVars, fetchVars,
                   statsVars, serviceVars>>

NextRoundTrip ==
    \/ SignAndPublish
    \/ \E relay \in Relays : \E outcome \in {"fulfilled", "rejected"} :
          RelaySettles(relay, outcome)
    \/ PublishReturns
    \/ FetchSurveyNotes
    \/ RelayDelivers
    \/ OnEvent(ForeignEvent)
    \/ OnEose
    \/ Timeout
    \/ PeerCompares

SpecRoundTrip == InitRoundTrip /\ [][NextRoundTrip]_vars

\* the note of pk1 as pk2 received it
IsPublished(n) ==
    /\ n.pubkey = signedEvent.pubkey
    /\ n.created_at = signedEvent.created_at
    /\ n.tags = signedEvent.tags

\* C30: for every survey with a non-empty address and a finite
\* discoveryScore, the note built by publishSurveyNote, once received
\* through fetchSurveyNotes by another session, has recovered address equal
\* to survey.address and discoveryScore equal to survey.discoveryScore, and
\* a peer monitoring the same address classifies it as same-address.
C30_RoundTrip ==
    /\ \A i \in Indices(fetchedNotes) :
          IsPublished(fetchedNotes[i])
          => /\ extractAddressFromSurvey(fetchedNotes[i]) = surveyData.address
             /\ fetchedNotes[i].discoveryScore = surveyData.discoveryScore
    /\ ("pk2" \in called /\ mySurvey.address = surveyData.address)
          => \A i \in Indices(otherSurveys) :
                IsPublished(otherSurveys[i])
                => \E j \in Indices(results["pk2"]) :
                      /\ results["pk2"][j].survey = otherSurveys[i]
                      /\ results["pk2"][j].matchType = "same-address"

\* the note about the long address with score 52.35 was received by pk2,
\* which monitors the same address, and classified as same-address
C30_Witness ==
    /\ "pk2" \in called
    /\ surveyData.address = AddrLong
    /\ mySurvey.address = AddrLong
    /\ surveyData.discoveryScore = Num(5235)
    /\ \E j \in Indices(results["pk2"]) :
          /\ IsPublished(results["pk2"][j].survey)
          /\ results["pk2"][j].matchType = "same-address"
          /\ results["pk2"][j].survey.discoveryScore = Num(5235)

----------------------------------------------------------------------------
(* The identity of a session and the periodic survey: the NostrClient      *)
(* constructor and setProfile, SurveyService.performSurvey,                *)
(* startPeriodicSurvey, stopPeriodicSurvey, isActive and disconnect        *)

\* performSurvey calls begun in one behaviour
MaxCycles == 3

\* secret keys: one handed to the constructor or made by generateSecretKey
SecretKeys == {"sk1", "sk2"}

\* NostrClient.getPublicKey
getPublicKey(client) == client.publicKey

\* finalizeEvent(event, secretKey): the signed event carries the public key
\* of the signing key, and an id
finalizeEvent(event, sk) ==
    [kind |-> event.kind, pubkey |-> PubOf(sk),
     id |-> <<event.kind, PubOf(sk), event.seq>>]

\* SurveyService.isActive
isActive == isRunning

\* setInterval returns a handle it has not returned before
NewTimerId ==
    1 + Cardinality({i \in 1..Len(cycles) : cycles[i].origin = "start"})

\* the synchronous part of performSurvey(address): createSurveyData is
\* called with getPublicKey() and awaits its fetches
BeginCycle(origin) ==
    Append(cycles, [origin |-> origin, pc |-> "fetching",
                    surveyor |-> getPublicKey(nostrClient)])

InitService ==
    /\ \E sk \in SecretKeys : nostrClient = NostrClient(sk)
    /\ profilePc = "scheduled"
    /\ isRunning = FALSE
    /\ intervalId = 0
    /\ armedTimers = {}
    /\ cycles = <<>>
    /\ signedLog = <<>>
    /\ lastCall = "constructor"
    /\ sessions = {getPublicKey(nostrClient)}
    /\ mySurvey = Survey("", 0, Num(0))
    /\ otherSurveys = <<>>
    /\ results = [k \in InstanceKeys |-> <<>>]
    /\ called = {}
    /\ IdleScore
    /\ IdleSurvey
    /\ IdleFetch
    /\ IdleStats

\* variant: the profile is signed with a newly generated key, which becomes
\* the client's
SetProfileNewKey ==
    /\ profilePc = "scheduled"
    /\ \E sk \in SecretKeys \ {nostrClient.secretKey} :
         /\ nostrClient' = NostrClient(sk)
         /\ signedLog' = Append(signedLog,
                finalizeEvent([kind |-> 0, pubkey |-> PubOf(sk),
                               seq |-> Len(signedLog)], sk))
    /\ profilePc' = "signed"
    /\ lastCall' = "setProfile"
    /\ UNCHANGED <<isRunning, intervalId, armedTimers, cycles, corrVars,
                   scoreVars, surveyVars, fetchVars, statsVars>>

\* the timer of the constructor fires: setProfile signs the kind 0 event
SetProfile ==
    /\ profilePc = "scheduled"
    /\ signedLog' = Append(signedLog,
           finalizeEvent([kind |-> 0, pubkey |-> nostrClient.publicKey,
                          seq |-> Len(signedLog)],
                         nostrClient.secretKey))
    /\ profilePc' = "signed"
    /\ lastCall' = "setProfile"
    /\ UNCHANGED <<nostrClient, isRunning, intervalId, armedTimers, cycles,
                   corrVars, scoreVars, surveyVars, fetchVars, statsVars>>

\* startPeriodicSurvey(address): returns at once when running; otherwise
\* sets isRunning, begins a survey and sets the interval timer
StartPeriodicSurvey ==
    /\ lastCall' = "startPeriodicSurvey"
    /\ IF isRunning
       THEN UNCHANGED <<isRunning, cycles, intervalId, armedTimers>>
       ELSE /\ Len(cycles) < MaxCycles
            /\ isRunning' = TRUE
            /\ cycles' = BeginCycle("start")
            /\ intervalId' = NewTimerId
            /\ armedTimers' = armedTimers \cup {NewTimerId}
    /\ UNCHANGED <<nostrClient, profilePc, signedLog, corrVars, scoreVars,
                   surveyVars, fetchVars, statsVars>>

\* an armed interval timer fires: its callback calls performSurvey(address)
TimerFires(id) ==
    /\ id \in armedTimers
    /\ Len(cycles) < MaxCycles
    /\ cycles' = BeginCycle("timer")
    /\ lastCall' = "interval"
    /\ UNCHANGED <<nostrClient, profilePc, isRunning, intervalId,
                   armedTimers, signedLog, corrVars, scoreVars, surveyVars,
                   fetchVars, statsVars>>

\* createSurveyData has returned: publishSurveyNote signs the kind 1 event
CycleSigns(i) ==
    /\ i \in 1..Len(cycles)
    /\ cycles[i].pc = "fetching"
    /\ cycles' = [cycles EXCEPT ![i].pc = "publishing"]
    /\ signedLog' = Append(signedLog,
           finalizeEvent([kind |-> 1, pubkey |-> nostrClient.publicKey,
                          seq |-> Len(signedLog)],
                         nostrClient.secretKey))
    /\ lastCall' = "publishSurveyNote"
    /\ UNCHANGED <<nostrClient, profilePc, isRunning, intervalId,
                   armedTimers, corrVars, scoreVars, surveyVars, fetchVars,
                   statsVars>>

\* the publishes have settled: performSurvey returns the survey
CycleReturns(i) ==
    /\ i \in 1..Len(cycles)
    /\ cycles[i].pc = "publishing"
    /\ cycles' = [cycles EXCEPT ![i].pc = "done"]
    /\ lastCall' = "performSurvey"
    /\ UNCHANGED <<nostrClient, profilePc, isRunning, intervalId,
                   armedTimers, signedLog, corrVars, scoreVars, surveyVars,
                   fetchVars, statsVars>>

\* variant: isRunning is reset, the interval timer is left armed
StopPeriodicSurveyKeepsTimer ==
    /\ isRunning' = FALSE
    /\ lastCall' = "stopPeriodicSurvey"
    /\ UNCHANGED <<intervalId, armedTimers, nostrClient, profilePc, cycles,
                   signedLog, corrVars, scoreVars, surveyVars, fetchVars,
                   statsVars>>

\* what stopPeriodicSurvey does to the timer and the flag
ClearAndReset ==
    /\ IF intervalId # 0
       THEN /\ armedTimers' = armedTimers \ {intervalId}
            /\ intervalId' = 0
       ELSE UNCHANGED <<intervalId, armedTimers>>
    /\ isRunning' = FALSE

StopPeriodicSurvey ==
    /\ ClearAndReset
    /\ lastCall' = "stopPeriodicSurvey"
    /\ UNCHANGED <<nostrClient, profilePc, cycles, signedLog, corrVars,
                   scoreVars, surveyVars, fetchVars, statsVars>>

\* disconnect: stopPeriodicSurvey, then the pool closes its relays
Disconnect ==
    /\ ClearAndReset
    /\ lastCall' = "disconnect"
    /\ UNCHANGED <<nostrClient, profilePc, cycles, signedLog, corrVars,
                   scoreVars, surveyVars, fetchVars, statsVars>>

\* fetchRecentSurveys: a subscription; no field of the session is written
FetchRecentSurveys ==
    /\ lastCall' = "fetchRecentSurveys"
    /\ UNCHANGED <<nostrClient, profilePc, isRunning, intervalId,
                   armedTimers, cycles, signedLog, corrVars, scoreVars,
                   surveyVars, fetchVars, statsVars>>

NextService ==
    \/ SetProfile
    \/ StartPeriodicSurvey
    \/ \E id \in 1..MaxCycles : TimerFires(id)
    \/ \E i \in 1..MaxCycles : CycleSigns(i)
    \/ \E i \in 1..MaxCycles : CycleReturns(i)
    \/ StopPeriodicSurvey
    \/ Disconnect
    \/ FetchRecentSurveys

SpecService == InitService /\ [][NextService]_vars

----------------------------------------------------------------------------
(* Properties of the identity and of the periodic survey                   *)

\* every signed event and every survey begun carries the client's key
CarriesKey ==
    /\ getPublicKey(nostrClient) = PubOf(nostrClient.secretKey)
    /\ \A n \in 1..Len(signedLog) :
          signedLog[n].pubkey = getPublicKey(nostrClient)
    /\ \A i \in 1..Len(cycles) :
          cycles[i].surveyor = getPublicKey(nostrClient)

\* C25: the identity keypair of a session is fixed at construction: through
\* every interleaving of survey cycles, fetches, timer firings and the
\* delayed profile publication getPublicKey returns the same value, every
\* note signed (profile and survey notes) carries that pubkey and every
\* survey built by performSurvey has it as surveyor.
C25_KeypairFixed ==
    [][/\ nostrClient' = nostrClient
       /\ getPublicKey(nostrClient') = getPublicKey(nostrClient)
       /\ CarriesKey']_vars

\* the profile and the notes of a first and of a timer-triggered survey
\* have been signed, a fetch having been made last
C25_Witness ==
    /\ profilePc = "signed"
    /\ Len(signedLog) = 3
    /\ \E n \in 1..Len(signedLog) : signedLog[n].kind = 0
    /\ \E i \in 1..Len(cycles) :
          cycles[i].origin = "timer" /\ cycles[i].pc = "done"
    /\ lastCall = "fetchRecentSurveys"
    /\ CarriesKey

\* a performSurvey call has begun in this step, and from where
Begins(origin) ==
    /\ Len(cycles') = Len(cycles) + 1
    /\ cycles'[Len(cycles')].origin = origin

\* C28: over any sequence of startPeriodicSurvey, stopPeriodicSurvey and
\* disconnect calls at most one periodic timer is armed and isActive() is
\* true exactly when one is armed; startPeriodicSurvey while active starts
\* neither a survey nor a second timer; after stopPeriodicSurvey or
\* disconnect no timer is armed, so that a timer-triggered performSurvey
\* begins only while the survey is active (a cycle in flight may still
\* complete), and a later startPeriodicSurvey begins a survey and arms a
\* timer again.
C28_OneTimerWhileActive ==
    [][/\ Cardinality(armedTimers') <= 1
       /\ isActive' <=> armedTimers' # {}
       /\ (lastCall' = "startPeriodicSurvey" /\ isActive)
            => UNCHANGED <<cycles, armedTimers, intervalId>>
       /\ (lastCall' = "startPeriodicSurvey" /\ ~isActive)
            => (Begins("start") /\ isActive' /\ armedTimers' # {})
       /\ lastCall' \in {"stopPeriodicSurvey", "disconnect"}
            => (armedTimers' = {} /\ ~isActive' /\ cycles' = cycles)
       /\ Begins("timer") => (isActive /\ armedTimers = {intervalId})
       /\ (~isActive /\ Len(cycles') = Len(cycles))
            => \A i \in 1..Len(cycles) :
                  cycles'[i].pc \in {cycles[i].pc, "publishing", "done"}]_vars

\* started, the timer fired and its survey completed, stopped, then
\* started again: a second timer is armed and a third survey has begun
C28_Witness ==
    /\ isActive
    /\ intervalId = 2
    /\ armedTimers = {2}
    /\ Len(cycles) = 3
    /\ cycles[2].origin = "timer"
    /\ cycles[2].pc = "done"
    /\ cycles[3].origin = "start"
    /\ cycles[3].pc = "fetching"
    /\ lastCall = "startPeriodicSurvey"

====
